---------------------------- MODULE Spec2Model ----------------------------
(***************************************************************************)
(* Lootloo (TaskLoot): the task / attempt / reward engine.                 *)
(*                                                                         *)
(* The model follows src/src/services/tasks/service.js (TaskService),      *)
(* src/src/services/users/service.js (createReward, redeemReward),         *)
(* src/src/cache/redis.js (CacheService), the error classes and the        *)
(* errorHandler middleware (src/unnamed/part_007) and the relational       *)
(* schema with its constraints and triggers (src/unnamed/part_004).        *)
(*                                                                         *)
(* Every service method is an async function.  Between two awaits the      *)
(* JavaScript of one request runs alone in its process; the database and   *)
(* Redis execute one statement at a time.  An action of the model is one   *)
(* external statement (SQL statement, Redis command, S3 call) together     *)
(* with the request-local code around it; code that touches the in-process *)
(* memory cache runs at the head of the action that follows its await.     *)
(* calls[p] is the position and the local variables of request p.          *)
(***************************************************************************)
EXTENDS Integers, Sequences, FiniteSets, TLC

(***************************************************************************)
(* Bounds of the model                                                     *)
(***************************************************************************)
MaxCalls == 2          \* requests per behaviour (each slot serves one request)
MaxTasks == 1          \* task rows that createTask may insert
TickDays == 15         \* days the clock advances in one Tick
MaxNow == 46           \* the clock stops here

Procs == 1..MaxCalls
TaskIds == 1..MaxTasks
Companies == {"c1", "c2"}
Users == {"u1", "u2"}

(***************************************************************************)
(* null / undefined.  NULL stands for a null record-valued field, NullStr  *)
(* for a null string-valued column, 0 for a null timestamp or reference.   *)
(***************************************************************************)
NULL == [null |-> TRUE]
NullStr == "null"

VARIABLES
    tasks,          \* table tasks: id -> row, or NULL when no row has that id
    task_attempts,  \* table task_attempts: sequence of rows in insertion order
    user_rewards,   \* table user_rewards: sequence of rows in insertion order
    redisStore,     \* Redis: task id -> serialized value of key task:<id>, or NULL
    memoryCache,    \* redis.js memoryCache: task id -> reference of the cached object, 0 if none
    heap,           \* JavaScript objects: reference -> task object (one object per request)
    calls,          \* the requests: position, arguments, locals, outcome
    now             \* the wall clock, in days

vars == <<tasks, task_attempts, user_rewards, redisStore, memoryCache, heap, calls, now>>

(***************************************************************************)
(* Error classes (src/unnamed/part_007, lines 305-369).  A error thrown by *)
(* the pg driver is no AppError: it carries the SQLSTATE in code.          *)
(***************************************************************************)
AppError(cls, status, code) ==
    [cls |-> cls, isAppError |-> TRUE, statusCode |-> status, code |-> code]
ValidationError == AppError("ValidationError", 422, "VALIDATION_ERROR")
ConflictError == AppError("ConflictError", 409, "CONFLICT")
NotFoundError == AppError("NotFoundError", 404, "NOT_FOUND")
ForbiddenError == AppError("ForbiddenError", 403, "FORBIDDEN")
GoneError == AppError("GoneError", 410, "GONE")
DatabaseError(sqlstate) ==
    [cls |-> "DatabaseError", isAppError |-> FALSE, statusCode |-> 0, code |-> sqlstate]
SyntaxError ==
    [cls |-> "SyntaxError", isAppError |-> FALSE, statusCode |-> 0, code |-> NullStr]
UNIQUE_VIOLATION == "23505"
CHECK_VIOLATION == "23514"

(***************************************************************************)
(* errorHandler: what the HTTP caller sees for a thrown error.  An error   *)
(* that is no AppError is first wrapped in AppError(message, status||500), *)
(* whose code is null; the later test err.code === '23505' reads the       *)
(* wrapper.  formatErrorResponse reports code || 'INTERNAL_ERROR'.         *)
(***************************************************************************)
errorHandler(error) ==
    LET err == IF error.isAppError THEN error
               ELSE AppError("AppError",
                             IF error.statusCode # 0 THEN error.statusCode ELSE 500,
                             NullStr)
        mapped == IF err.code = UNIQUE_VIOLATION THEN ConflictError ELSE err
    IN [status |-> mapped.statusCode,
        code |-> IF mapped.code # NullStr THEN mapped.code ELSE "INTERNAL_ERROR"]

(***************************************************************************)
(* Strings are sequences of characters.                                    *)
(***************************************************************************)
Str(n, c) == [i \in 1..n |-> c]

RECURSIVE TrimLeft(_)
TrimLeft(s) == IF s # <<>> /\ Head(s) = " " THEN TrimLeft(Tail(s)) ELSE s
RECURSIVE TrimRight(_)
TrimRight(s) ==
    IF s # <<>> /\ s[Len(s)] = " " THEN TrimRight(SubSeq(s, 1, Len(s) - 1)) ELSE s
\* String.prototype.trim
Trim(s) == TrimRight(TrimLeft(s))

LowerChar(c) ==
    CASE c = "P" -> "p"
      [] c = "Z" -> "z"
      [] OTHER -> c
\* SQL LOWER()
Lower(s) == [i \in 1..Len(s) |-> LowerChar(s[i])]

(***************************************************************************)
(* The requests                                                            *)
(***************************************************************************)
Idle ==
    [op |-> "none", pc |-> "idle", tid |-> 0, uid |-> NullStr, cid |-> NullStr,
     data |-> NULL, loc |-> NULL, ref |-> 0, err |-> NULL, ret |-> NULL]

\* Slots are interchangeable: they are taken in order.
CanStart(p) ==
    /\ calls[p].pc = "idle"
    /\ \A q \in Procs : q < p => calls[q].pc # "idle"

Begin(op, tid, uid, cid, data) ==
    [Idle EXCEPT !.op = op, !.tid = tid, !.uid = uid, !.cid = cid, !.data = data]

\* throw: the request ends with the error
Throw(c, error) == [c EXCEPT !.pc = "done", !.err = error]
\* return: the request ends with the value
Return(c, value) == [c EXCEPT !.pc = "done", !.ret = value]
Goto(c, pc) == [c EXCEPT !.pc = pc]

Done(p) == calls[p].pc = "done"
Succeeded(p) == Done(p) /\ calls[p].err = NULL
Failed(p, cls) == Done(p) /\ calls[p].err # NULL /\ calls[p].err.cls = cls


(***************************************************************************)
(* Table tasks (src/unnamed/part_004, lines 128-156)                       *)
(***************************************************************************)
validTaskTypes == {"image-puzzle", "spot-diff", "speed-challenge", "meme", "logic"}
validDifficulties == {"easy", "medium", "hard", "expert"}
validRewardTypes == {"discount", "coupon", "points", "cashback"}
validStatuses == {"draft", "pending", "active", "blocked", "expired"}

\* The CHECK constraints of table tasks, on a candidate row.
TasksCheckOk(row) ==
    /\ row.task_type \in validTaskTypes
    /\ row.difficulty \in validDifficulties
    /\ row.reward_type \in validRewardTypes
    /\ row.reward_value > 0
    /\ row.status \in validStatuses

TaskExists(id) == id \in DOMAIN tasks /\ tasks[id] # NULL

\* gen_random_uuid(): an id no row has had
FreeTaskIds == {id \in DOMAIN tasks : tasks[id] = NULL}
NewTaskId == CHOOSE id \in FreeTaskIds : \A other \in FreeTaskIds : id <= other

(***************************************************************************)
(* What the pg driver hands back for a row.  The column puzzle_config is   *)
(* JSONB; the service treats the value it reads as JSON text               *)
(* (JSON.parse(task.puzzle_config)), while a driver with its default type  *)
(* parsers hands back the parsed object.  Both forms are modelled: form is *)
(* "string" for JSON text and "object" for a parsed object.                *)
(***************************************************************************)
JsonForms == {"string", "object"}

ReadRow(row, form) ==
    [row EXCEPT !.puzzle_config =
        IF row.puzzle_config = NULL THEN NULL
        ELSE IF form = "string" THEN [json |-> row.puzzle_config]
        ELSE row.puzzle_config]

(***************************************************************************)
(* validateTaskData (service.js, lines 580-627): TRUE iff it does not      *)
(* throw.                                                                  *)
(***************************************************************************)
MAX_TASK_REWARD_VALUE == 10000

\* A JavaScript number: NaN or a value.  The values of this model are whole.
NaN == [nan |-> TRUE, value |-> 0]
Number(n) == [nan |-> FALSE, value |-> n]
isNaN(x) == x.nan

DigitOf(c) ==
    CASE c = "0" -> 0 [] c = "1" -> 1 [] c = "2" -> 2 [] c = "3" -> 3
      [] c = "4" -> 4 [] c = "5" -> 5 [] c = "6" -> 6 [] c = "7" -> 7
      [] c = "8" -> 8 [] c = "9" -> 9 [] OTHER -> -1

\* the value of the longest run of digits of s that starts at position i
RECURSIVE ParseDigits(_, _, _)
ParseDigits(s, i, acc) ==
    IF i > Len(s) \/ DigitOf(s[i]) < 0 THEN acc
    ELSE ParseDigits(s, i + 1, 10 * acc + DigitOf(s[i]))

\* parseFloat of the text of the field (a number reaches it as its text):
\* leading blanks are skipped, an optional sign and the longest numeric
\* prefix are read, what follows is ignored; NaN if there is no such prefix
parseFloat(v) ==
    LET t == TrimLeft(v)
        neg == t # <<>> /\ Head(t) = "-"
        body == IF neg THEN Tail(t) ELSE t
    IN IF body = <<>> \/ DigitOf(Head(body)) < 0 THEN NaN
       ELSE Number((IF neg THEN -1 ELSE 1) * ParseDigits(body, 1, 0))

\* validateTaskData without the upper limit of lines 619-622
validateTaskData_NoMaximum(d) ==
    /\ ~(d.title = <<>> \/ Len(Trim(d.title)) < 3 \/ Len(Trim(d.title)) > 100)
    /\ ~(d.description # <<>> /\ Len(d.description) > 1000)
    /\ d.task_type \in validTaskTypes
    /\ d.difficulty \in validDifficulties
    /\ d.reward_type \in validRewardTypes
    /\ ~(isNaN(parseFloat(d.reward_value)) \/ parseFloat(d.reward_value).value <= 0)
    /\ ~(d.reward_description = <<>>
         \/ Len(Trim(d.reward_description)) < 10
         \/ Len(Trim(d.reward_description)) > 255)

validateTaskData(d) ==
    /\ ~(d.title = <<>> \/ Len(Trim(d.title)) < 3 \/ Len(Trim(d.title)) > 100)
    /\ ~(d.description # <<>> /\ Len(d.description) > 1000)
    /\ d.task_type \in validTaskTypes
    /\ d.difficulty \in validDifficulties
    /\ d.reward_type \in validRewardTypes
    /\ ~(isNaN(parseFloat(d.reward_value)) \/ parseFloat(d.reward_value).value <= 0)
    /\ ~(parseFloat(d.reward_value).value > MAX_TASK_REWARD_VALUE)
    /\ ~(d.reward_description = <<>>
         \/ Len(Trim(d.reward_description)) < 10
         \/ Len(Trim(d.reward_description)) > 255)

\* getGridSizeFromDifficulty (service.js, lines 634-643)
getGridSizeFromDifficulty(difficulty) ==
    CASE difficulty = "easy" -> 9
      [] difficulty = "medium" -> 16
      [] difficulty = "hard" -> 25
      [] difficulty = "expert" -> 25
      [] OTHER -> 16

(***************************************************************************)
(* generateImagePuzzle (puzzleGenerator.js, lines 28-134): the config it   *)
(* returns for a grid size and a shuffle.  correct_solution is the         *)
(* original order of the piece indices.                                    *)
(***************************************************************************)
Sqrt(n) == CHOOSE s \in 0..n : s * s = n

Identity(n) == [i \in 1..n |-> i - 1]
Reversed(n) == [i \in 1..n |-> n - i]
\* the orders shuffleArray is let to produce here
Shuffles(n) == {Identity(n), Reversed(n)}

ImageUrl == "cdn/puzzles/original.jpg"

PuzzleConfig(gridSize, shuffled) ==
    [image_url |-> ImageUrl,
     grid_size |-> Sqrt(gridSize),
     piece_count |-> gridSize,
     shuffled_order |-> shuffled,
     correct_solution |-> Identity(gridSize)]

\* delete puzzleConfig.correct_solution
DeleteSolution(cfg) == [f \in DOMAIN cfg \ {"correct_solution"} |-> cfg[f]]

HasSolution(cfg) == "correct_solution" \in DOMAIN cfg

(***************************************************************************)
(* CacheService (src/src/cache/redis.js, lines 82-169)                     *)
(***************************************************************************)
\* JSON.stringify: the text of an object; JSON.parse: the object of a text.
\* A nested JSON text (puzzle_config of form "string") stays a string in the
\* parsed object; a nested object stays an object.
JSONstringify(obj) == [json |-> obj]
JSONparse(text) == text.json

\* getMemory: the cached object's reference, 0 on a miss
getMemory(key) == memoryCache[key]

\* a property the object does not have
Absent == [absent |-> TRUE]

\* RETURNING * of createTask: the row alone
CreatedObject(taskId, row, form) ==
    [row |-> ReadRow(row, form),
     id |-> taskId,
     total_attempts |-> 0,
     successful_attempts |-> 0,
     user_attempt |-> Absent]

(***************************************************************************)
(* createTask (service.js, lines 21-103)                                   *)
(***************************************************************************)
\* the duplicate-title SELECT without LOWER()
TitleTaken_CaseSensitive(companyId, title) ==
    \E id \in DOMAIN tasks :
        /\ tasks[id] # NULL
        /\ tasks[id].company_id = companyId
        /\ tasks[id].title = Trim(title)

\* lines 38-41: SELECT id FROM tasks WHERE company_id = $1 AND LOWER(title) = LOWER($2)
TitleTaken(companyId, title) ==
    \E id \in DOMAIN tasks :
        /\ tasks[id] # NULL
        /\ tasks[id].company_id = companyId
        /\ Lower(tasks[id].title) = Lower(Trim(title))

\* lines 22-64: validation, the duplicate-title SELECT
CreateTask_Start(p, companyId, d) ==
    /\ CanStart(p)
    /\ LET c == Begin("createTask", 0, NullStr, companyId, d) IN
       calls' = [calls EXCEPT ![p] =
           IF ~validateTaskData(d) THEN Throw(c, ValidationError)
           ELSE IF TitleTaken(companyId, d.title) THEN Throw(c, ConflictError)
           ELSE IF d.image_file # NullStr THEN Goto(c, "ct_generate")
           ELSE Goto([c EXCEPT !.loc = [imageUrl |-> NullStr, config |-> NULL]],
                     "ct_insert")]
    /\ UNCHANGED <<tasks, task_attempts, user_rewards, redisStore, memoryCache, heap, now>>

\* isValidImage (puzzleGenerator.js, lines 253-273).  Line 261 keeps the
\* Promise that sharp(buffer).metadata() returns, without awaiting it; lines
\* 266-268 read format, width and height off that Promise, which has no such
\* properties.
supportedFormats == {"jpeg", "png", "webp"}
PromiseProperty == "undefined"

isValidImage(image) ==
    IF image = "oversize" THEN FALSE
    ELSE PromiseProperty \in supportedFormats

\* createTask whose catch of lines 60-63 lets a failed generation through
\* to the INSERT, with what had been built
CreateTask_Generate_NoCatch(p, s3ok, shuffled) ==
    /\ calls[p].pc = "ct_generate"
    /\ calls' = [calls EXCEPT ![p] =
         Goto([@ EXCEPT !.loc = [imageUrl |-> NullStr,
                                 config |-> [image_url |-> ImageUrl]]],
              "ct_insert")]
    /\ UNCHANGED <<tasks, task_attempts, user_rewards, redisStore, memoryCache, heap, now>>

\* lines 51-64: puzzle generation (puzzleGenerator.js, lines 28-134: grid
\* size, image validation, upload, pieces, shuffle); any failure becomes a
\* ValidationError
CreateTask_Generate(p, s3ok, shuffled) ==
    /\ calls[p].pc = "ct_generate"
    /\ LET c == calls[p]
           gridSize == getGridSizeFromDifficulty(c.data.difficulty)
       IN
       /\ shuffled \in Shuffles(gridSize)
       /\ calls' = [calls EXCEPT ![p] =
            IF gridSize \in {9, 16, 25} /\ isValidImage(c.data.image_file) /\ s3ok
            THEN Goto([c EXCEPT !.loc =
                          [imageUrl |-> ImageUrl,
                           config |-> PuzzleConfig(gridSize, shuffled)]],
                      "ct_insert")
            ELSE Throw(c, ValidationError)]
    /\ UNCHANGED <<tasks, task_attempts, user_rewards, redisStore, memoryCache, heap, now>>

NewTaskRow(companyId, d, imageUrl, config) ==
    [company_id |-> companyId,
     title |-> Trim(d.title),
     description |-> Trim(d.description),
     task_type |-> d.task_type,
     difficulty |-> d.difficulty,
     reward_type |-> d.reward_type,
     reward_value |-> parseFloat(d.reward_value).value,
     reward_description |-> Trim(d.reward_description),
     image_url |-> imageUrl,
     puzzle_config |-> config,
     status |-> "draft",
     is_featured |-> FALSE,
     featured_until |-> 0,
     attempt_count |-> 0,
     conversion_count |-> 0,
     expires_at |-> 0]

\* lines 66-89: INSERT INTO tasks ... RETURNING *
CreateTask_Insert(p, form) ==
    /\ calls[p].pc = "ct_insert"
    /\ FreeTaskIds # {}
    /\ LET c == calls[p]
           row == NewTaskRow(c.cid, c.data, c.loc.imageUrl, c.loc.config)
           id == NewTaskId
       IN
       IF ~TasksCheckOk(row)
       THEN /\ calls' = [calls EXCEPT ![p] = Throw(c, DatabaseError(CHECK_VIOLATION))]
            /\ UNCHANGED <<tasks, heap>>
       ELSE /\ tasks' = [tasks EXCEPT ![id] = row]
            /\ heap' = [heap EXCEPT ![p] = CreatedObject(id, row, form)]
            /\ calls' = [calls EXCEPT ![p] = Goto([c EXCEPT !.tid = id, !.ref = p], "ct_cacheset")]
    /\ UNCHANGED <<task_attempts, user_rewards, redisStore, memoryCache, now>>

\* line 92, redis.js lines 119-122: redisClient.setex(key, ttl, JSON.stringify(task))
CreateTask_CacheSet(p) ==
    /\ calls[p].pc = "ct_cacheset"
    /\ redisStore' = [redisStore EXCEPT ![calls[p].tid] = JSONstringify(heap[calls[p].ref])]
    /\ calls' = [calls EXCEPT ![p] = Goto(@, "ct_return")]
    /\ UNCHANGED <<tasks, task_attempts, user_rewards, memoryCache, heap, now>>

\* redis.js line 125 (setMemory), service.js lines 94-102: return task
CreateTask_Return(p) ==
    /\ calls[p].pc = "ct_return"
    /\ memoryCache' = [memoryCache EXCEPT ![calls[p].tid] = calls[p].ref]
    /\ calls' = [calls EXCEPT ![p] = Return(@, heap[calls[p].ref])]
    /\ UNCHANGED <<tasks, task_attempts, user_rewards, redisStore, heap, now>>

(***************************************************************************)
(* Table task_attempts (part_004, lines 175-186) and its trigger           *)
(***************************************************************************)
AttemptsOf(taskId) ==
    {i \in 1..Len(task_attempts) : task_attempts[i].task_id = taskId}
AttemptsOfUser(taskId, userId) ==
    {i \in AttemptsOf(taskId) : task_attempts[i].user_id = userId}
SuccessfulAttemptsOf(taskId) ==
    {i \in AttemptsOf(taskId) : task_attempts[i].is_successful}

\* the first row a SELECT ... WHERE task_id = $1 AND user_id = $2 returns, or NULL
FirstAttempt(taskId, userId) ==
    IF AttemptsOfUser(taskId, userId) = {} THEN NULL
    ELSE LET i == CHOOSE j \in AttemptsOfUser(taskId, userId) :
                      \A k \in AttemptsOfUser(taskId, userId) : j <= k
         IN [id |-> task_attempts[i].id,
             is_successful |-> task_attempts[i].is_successful,
             time_taken_seconds |-> task_attempts[i].time_taken_seconds]

(***************************************************************************)
(* getTask (service.js, lines 111-158)                                     *)
(***************************************************************************)
\* lines 117-128: the row with the company join and the attempt aggregates
TaskObject(taskId, form) ==
    [row |-> ReadRow(tasks[taskId], form),
     id |-> taskId,
     total_attempts |-> Cardinality(AttemptsOf(taskId)),
     successful_attempts |-> Cardinality(SuccessfulAttemptsOf(taskId)),
     user_attempt |-> Absent]

\* lines 150-155: JSON.parse(task.puzzle_config) throws on a value that is
\* no JSON text ("[object Object]")
IsJsonText(x) == DOMAIN x = {"json"}

ParseThrows(obj) ==
    obj.row.puzzle_config # NULL /\ ~IsJsonText(obj.row.puzzle_config)

\* the object with its puzzle parsed and the solution left in
Redact_KeepSolution(obj) ==
    IF obj.row.puzzle_config = NULL THEN obj
    ELSE [obj EXCEPT !.row.puzzle_config = JSONparse(obj.row.puzzle_config)]

\* lines 150-155: the object after the solution is removed
Redact(obj) ==
    IF obj.row.puzzle_config = NULL THEN obj
    ELSE [obj EXCEPT !.row.puzzle_config =
            DeleteSolution(JSONparse(obj.row.puzzle_config))]

\* lines 147-157 on the object ref of request c, given the attempt row read:
\* the heap and the request afterwards
WithAttempt(obj, c) ==
    IF c.uid # NullStr THEN [obj EXCEPT !.user_attempt = c.loc] ELSE obj

FinishHeap(h, c) ==
    LET obj == WithAttempt(h[c.ref], c) IN
    [h EXCEPT ![c.ref] = IF ParseThrows(obj) THEN obj ELSE Redact(obj)]

FinishCall(h, c) ==
    LET obj == WithAttempt(h[c.ref], c) IN
    IF ParseThrows(obj) THEN Throw(c, SyntaxError) ELSE Return(c, Redact(obj))

\* lines 141-148: the SELECT on task_attempts, for a signed-in caller; else
\* the request finishes at once
AttemptQueryOrFinish(p, h, c) ==
    IF c.uid # NullStr
    THEN /\ calls' = [calls EXCEPT ![p] =
                        Goto([c EXCEPT !.loc = FirstAttempt(c.tid, c.uid)], "gt_finish")]
         /\ heap' = h
    ELSE /\ calls' = [calls EXCEPT ![p] = FinishCall(h, c)]
         /\ heap' = FinishHeap(h, c)

\* line 113, redis.js lines 134-146: memory cache, then redisClient.get
GetTask_Start(p, taskId, userId) ==
    /\ CanStart(p)
    /\ LET c == Begin("getTask", taskId, userId, NullStr, NULL) IN
       IF getMemory(taskId) # 0
       THEN AttemptQueryOrFinish(p, heap, [c EXCEPT !.ref = getMemory(taskId), !.data = [from |-> "memory"]])
       ELSE /\ calls' = [calls EXCEPT ![p] =
                           Goto([c EXCEPT !.loc = redisStore[taskId]], "gt_redis")]
            /\ heap' = heap
    /\ UNCHANGED <<tasks, task_attempts, user_rewards, redisStore, memoryCache, now>>

\* redis.js lines 144-153 (hit: parse, setMemory), service.js lines 115-134
\* (miss: the SELECT on tasks)
GetTask_AfterRedis(p, form) ==
    /\ calls[p].pc = "gt_redis"
    /\ LET c == calls[p] IN
       IF c.loc # NULL
       THEN /\ memoryCache' = [memoryCache EXCEPT ![c.tid] = p]
            /\ AttemptQueryOrFinish(p, [heap EXCEPT ![p] = JSONparse(c.loc)],
                                    [c EXCEPT !.ref = p, !.loc = NULL, !.data = [from |-> "redis"]])
       ELSE /\ memoryCache' = memoryCache
            /\ IF ~TaskExists(c.tid)
               THEN /\ calls' = [calls EXCEPT ![p] = Throw(c, NotFoundError)]
                    /\ heap' = heap
               ELSE /\ heap' = [heap EXCEPT ![p] = TaskObject(c.tid, form)]
                    /\ calls' = [calls EXCEPT ![p] =
                          Goto([c EXCEPT !.ref = p, !.data = [from |-> "database"]], "gt_cacheset")]
    /\ UNCHANGED <<tasks, task_attempts, user_rewards, redisStore, now>>

\* line 137, redis.js lines 121-122: setex(key, 300, JSON.stringify(task))
GetTask_CacheSet(p) ==
    /\ calls[p].pc = "gt_cacheset"
    /\ redisStore' = [redisStore EXCEPT ![calls[p].tid] = JSONstringify(heap[calls[p].ref])]
    /\ calls' = [calls EXCEPT ![p] = Goto(@, "gt_setmem")]
    /\ UNCHANGED <<tasks, task_attempts, user_rewards, memoryCache, heap, now>>

\* redis.js line 125 (setMemory), then service.js lines 141-148
GetTask_SetMemory(p) ==
    /\ calls[p].pc = "gt_setmem"
    /\ memoryCache' = [memoryCache EXCEPT ![calls[p].tid] = calls[p].ref]
    /\ AttemptQueryOrFinish(p, heap, calls[p])
    /\ UNCHANGED <<tasks, task_attempts, user_rewards, redisStore, now>>

\* lines 147-157
GetTask_Finish(p) ==
    /\ calls[p].pc = "gt_finish"
    /\ calls' = [calls EXCEPT ![p] = FinishCall(heap, calls[p])]
    /\ heap' = FinishHeap(heap, calls[p])
    /\ UNCHANGED <<tasks, task_attempts, user_rewards, redisStore, memoryCache, now>>

(***************************************************************************)
(* Expiry of cache entries: Redis drops a key when its TTL (300 s) ends,   *)
(* getMemory drops an entry whose 60 s have passed (redis.js, 102-112).    *)
(***************************************************************************)
RedisExpire(key) ==
    /\ redisStore[key] # NULL
    /\ redisStore' = [redisStore EXCEPT ![key] = NULL]
    /\ UNCHANGED <<tasks, task_attempts, user_rewards, memoryCache, heap, calls, now>>

MemoryExpire(key) ==
    /\ memoryCache[key] # 0
    /\ memoryCache' = [memoryCache EXCEPT ![key] = 0]
    /\ UNCHANGED <<tasks, task_attempts, user_rewards, redisStore, heap, calls, now>>

(***************************************************************************)
(* Statements shared by the operations of a company on its task            *)
(***************************************************************************)
\* the SELECT by id alone
OwnedTask_AnyCompany(taskId, companyId) ==
    IF TaskExists(taskId) THEN tasks[taskId] ELSE NULL

\* SELECT * FROM tasks WHERE id = $1 AND company_id = $2: the row or NULL
OwnedTask(taskId, companyId) ==
    IF TaskExists(taskId) /\ tasks[taskId].company_id = companyId
    THEN tasks[taskId] ELSE NULL

\* cacheService.del, first half (redis.js line 162): redisClient.del(key)
CacheDel_Redis(p, from, to) ==
    /\ calls[p].pc = from
    /\ redisStore' = [redisStore EXCEPT ![calls[p].tid] = NULL]
    /\ calls' = [calls EXCEPT ![p] = Goto(@, to)]
    /\ UNCHANGED <<tasks, task_attempts, user_rewards, memoryCache, heap, now>>

\* cacheService.del, second half (redis.js line 163): deleteMemory(key); the
\* operation then returns the value it holds in loc
CacheDel_MemoryAndReturn(p, from) ==
    /\ calls[p].pc = from
    /\ memoryCache' = [memoryCache EXCEPT ![calls[p].tid] = 0]
    /\ calls' = [calls EXCEPT ![p] = Return(@, calls[p].loc)]
    /\ UNCHANGED <<tasks, task_attempts, user_rewards, redisStore, heap, now>>

(***************************************************************************)
(* updateTask (service.js, lines 272-332)                                  *)
(***************************************************************************)
\* the whitelist with status in it
allowedUpdates_WithStatus ==
    {"title", "description", "difficulty", "reward_value", "reward_description", "status"}

\* line 289
allowedUpdates == {"title", "description", "difficulty", "reward_value", "reward_description"}

\* lines 296-302: the entries of updateData that are allowed
Whitelisted(updateData) ==
    [k \in DOMAIN updateData \cap allowedUpdates |-> updateData[k]]

\* UPDATE tasks SET <updates>: the row afterwards
ApplyUpdates(row, updates) ==
    [f \in DOMAIN row |-> IF f \in DOMAIN updates THEN updates[f] ELSE row[f]]

\* lines 274-306: the SELECT, the status check, the whitelist
UpdateTask_Start(p, taskId, companyId, updateData) ==
    /\ CanStart(p)
    /\ LET c == Begin("updateTask", taskId, NullStr, companyId, updateData)
           task == OwnedTask(taskId, companyId)
       IN
       calls' = [calls EXCEPT ![p] =
           IF task = NULL THEN Throw(c, NotFoundError)
           ELSE IF task.status = "active" THEN Throw(c, ForbiddenError)
           ELSE IF DOMAIN Whitelisted(updateData) = {} THEN Throw(c, ValidationError)
           ELSE Goto(c, "ut_update")]
    /\ UNCHANGED <<tasks, task_attempts, user_rewards, redisStore, memoryCache, heap, now>>

\* lines 312-320: UPDATE tasks SET ... WHERE id = $n AND company_id = $m RETURNING *
UpdateTask_Update(p) ==
    /\ calls[p].pc = "ut_update"
    /\ LET c == calls[p]
           task == OwnedTask(c.tid, c.cid)
           row == ApplyUpdates(task, Whitelisted(c.data))
       IN
       IF task = NULL
       THEN /\ calls' = [calls EXCEPT ![p] = Goto([c EXCEPT !.loc = NULL], "ut_cachedel")]
            /\ tasks' = tasks
       ELSE IF ~TasksCheckOk(row)
       THEN /\ calls' = [calls EXCEPT ![p] = Throw(c, DatabaseError(CHECK_VIOLATION))]
            /\ tasks' = tasks
       ELSE /\ tasks' = [tasks EXCEPT ![c.tid] = row]
            /\ calls' = [calls EXCEPT ![p] = Goto([c EXCEPT !.loc = row], "ut_cachedel")]
    /\ UNCHANGED <<task_attempts, user_rewards, redisStore, memoryCache, heap, now>>

\* line 323
UpdateTask_CacheDel(p) == CacheDel_Redis(p, "ut_cachedel", "ut_return")
\* lines 323-331
UpdateTask_Return(p) == CacheDel_MemoryAndReturn(p, "ut_return")

(***************************************************************************)
(* publishTask (service.js, lines 391-436)                                 *)
(***************************************************************************)
\* the preconditions with the kinds of error exchanged
PublishPrecondition_KindsSwapped(task) ==
    IF task.status # "draft" THEN ValidationError
    ELSE IF task.image_url = NullStr THEN ForbiddenError
    ELSE IF task.reward_value <= 0 THEN ForbiddenError
    ELSE NULL

\* the preconditions without the test of image_url
PublishPrecondition_NoImageTest(task) ==
    IF task.status # "draft" THEN ForbiddenError
    ELSE IF task.reward_value <= 0 THEN ValidationError
    ELSE NULL

\* lines 403-413: the error the preconditions raise for the row read, or NULL
PublishPrecondition(task) ==
    IF task.status # "draft" THEN ForbiddenError
    ELSE IF task.image_url = NullStr THEN ValidationError
    ELSE IF task.reward_value <= 0 THEN ValidationError
    ELSE NULL

\* lines 392-413
PublishTask_Start(p, taskId, companyId) ==
    /\ CanStart(p)
    /\ LET c == Begin("publishTask", taskId, NullStr, companyId, NULL)
           task == OwnedTask(taskId, companyId)
       IN
       calls' = [calls EXCEPT ![p] =
           IF task = NULL THEN Throw(c, NotFoundError)
           ELSE IF PublishPrecondition(task) # NULL THEN Throw(c, PublishPrecondition(task))
           ELSE Goto(c, "pt_update")]
    /\ UNCHANGED <<tasks, task_attempts, user_rewards, redisStore, memoryCache, heap, now>>

\* lines 416-424: UPDATE tasks SET status = 'active' WHERE id = $1 AND company_id = $2
PublishTask_Update(p) ==
    /\ calls[p].pc = "pt_update"
    /\ LET c == calls[p]
           task == OwnedTask(c.tid, c.cid)
       IN
       IF task = NULL
       THEN /\ calls' = [calls EXCEPT ![p] = Goto([c EXCEPT !.loc = NULL], "pt_cachedel")]
            /\ tasks' = tasks
       ELSE /\ tasks' = [tasks EXCEPT ![c.tid].status = "active"]
            /\ calls' = [calls EXCEPT ![p] =
                            Goto([c EXCEPT !.loc = [task EXCEPT !.status = "active"]],
                                 "pt_cachedel")]
    /\ UNCHANGED <<task_attempts, user_rewards, redisStore, memoryCache, heap, now>>

\* line 427
PublishTask_CacheDel(p) == CacheDel_Redis(p, "pt_cachedel", "pt_return")
\* lines 427-435
PublishTask_Return(p) == CacheDel_MemoryAndReturn(p, "pt_return")

(***************************************************************************)
(* featureTask (service.js, lines 445-494)                                 *)
(***************************************************************************)
FEATURED_TASK_COST_PER_DAY == 99

\* featureTask without the status test of line 457
FeatureTask_Start_NoStatusTest(p, taskId, companyId, durationDays) ==
    /\ CanStart(p)
    /\ LET c == Begin("featureTask", taskId, NullStr, companyId,
                      [durationDays |-> durationDays,
                       totalCost |-> FEATURED_TASK_COST_PER_DAY * durationDays,
                       featuredUntil |-> now + durationDays])
           task == OwnedTask(taskId, companyId)
       IN
       calls' = [calls EXCEPT ![p] =
           IF task = NULL THEN Throw(c, NotFoundError) ELSE Goto(c, "ft_update")]
    /\ UNCHANGED <<tasks, task_attempts, user_rewards, redisStore, memoryCache, heap, now>>

\* lines 446-466: the SELECT, the status check, cost and featured_until
FeatureTask_Start(p, taskId, companyId, durationDays) ==
    /\ CanStart(p)
    /\ LET c == Begin("featureTask", taskId, NullStr, companyId,
                      [durationDays |-> durationDays,
                       totalCost |-> FEATURED_TASK_COST_PER_DAY * durationDays,
                       featuredUntil |-> now + durationDays])
           task == OwnedTask(taskId, companyId)
       IN
       calls' = [calls EXCEPT ![p] =
           IF task = NULL THEN Throw(c, NotFoundError)
           ELSE IF task.status # "active" THEN Throw(c, ForbiddenError)
           ELSE Goto(c, "ft_update")]
    /\ UNCHANGED <<tasks, task_attempts, user_rewards, redisStore, memoryCache, heap, now>>

\* lines 468-476: UPDATE tasks SET is_featured = true, featured_until = $1
FeatureTask_Update(p) ==
    /\ calls[p].pc = "ft_update"
    /\ LET c == calls[p]
           task == OwnedTask(c.tid, c.cid)
           row == [task EXCEPT !.is_featured = TRUE, !.featured_until = c.data.featuredUntil]
       IN
       IF task = NULL
       THEN /\ calls' = [calls EXCEPT ![p] = Goto([c EXCEPT !.loc = NULL], "ft_cachedel")]
            /\ tasks' = tasks
       ELSE /\ tasks' = [tasks EXCEPT ![c.tid] = row]
            /\ calls' = [calls EXCEPT ![p] =
                 Goto([c EXCEPT !.loc = [task |-> row, cost |-> c.data.totalCost,
                                         featured_until |-> c.data.featuredUntil]],
                      "ft_cachedel")]
    /\ UNCHANGED <<task_attempts, user_rewards, redisStore, memoryCache, heap, now>>

\* line 479
FeatureTask_CacheDel(p) == CacheDel_Redis(p, "ft_cachedel", "ft_return")
\* lines 479-493
FeatureTask_Return(p) == CacheDel_MemoryAndReturn(p, "ft_return")

(***************************************************************************)
(* deleteTask (service.js, lines 340-383)                                  *)
(***************************************************************************)
\* the value true that deleteTask returns (line 382)
JsTrue == [boolean |-> TRUE]

\* lines 342-351: the SELECT of the owned task
DeleteTask_Start(p, taskId, companyId) ==
    /\ CanStart(p)
    /\ LET c == Begin("deleteTask", taskId, NullStr, companyId, NULL)
           task == OwnedTask(taskId, companyId)
       IN
       calls' = [calls EXCEPT ![p] =
           IF task = NULL THEN Throw(c, NotFoundError)
           ELSE Goto([c EXCEPT !.loc = task], "dt_transaction")]
    /\ UNCHANGED <<tasks, task_attempts, user_rewards, redisStore, memoryCache, heap, now>>

\* a connection error, as pg reports one that has no SQLSTATE
CONNECTION_FAILURE == "none"

\* the three DELETEs sent one by one without BEGIN / ROLLBACK: a failure
\* after the first keeps what it has deleted
DeleteTask_Transaction_NoRollback(p, committed) ==
    /\ calls[p].pc = "dt_transaction"
    /\ LET c == calls[p]
           OfOther(row) == row.task_id # c.tid
       IN
       /\ task_attempts' = SelectSeq(task_attempts, OfOther)
       /\ IF committed
          THEN /\ user_rewards' = SelectSeq(user_rewards, OfOther)
               /\ tasks' = [tasks EXCEPT ![c.tid] = NULL]
               /\ calls' = [calls EXCEPT ![p] = Goto(c, "dt_assets")]
          ELSE /\ UNCHANGED <<user_rewards, tasks>>
               /\ calls' = [calls EXCEPT ![p] = Throw(c, DatabaseError(CONNECTION_FAILURE))]
    /\ UNCHANGED <<redisStore, memoryCache, heap, now>>

\* lines 354-361, withTransaction (part_003, lines 75-88): BEGIN, DELETE FROM
\* task_attempts, DELETE FROM user_rewards, DELETE FROM tasks WHERE id = $1
\* (with ON DELETE CASCADE of part_004, lines 177 and 201, for the rows
\* inserted meanwhile), COMMIT; on an error ROLLBACK and rethrow
DeleteTask_Transaction(p, committed) ==
    /\ calls[p].pc = "dt_transaction"
    /\ LET c == calls[p]
           OfOther(row) == row.task_id # c.tid
       IN
       IF committed
       THEN /\ task_attempts' = SelectSeq(task_attempts, OfOther)
            /\ user_rewards' = SelectSeq(user_rewards, OfOther)
            /\ tasks' = [tasks EXCEPT ![c.tid] = NULL]
            /\ calls' = [calls EXCEPT ![p] = Goto(c, "dt_assets")]
       ELSE /\ UNCHANGED <<task_attempts, user_rewards, tasks>>
            /\ calls' = [calls EXCEPT ![p] = Throw(c, DatabaseError(CONNECTION_FAILURE))]
    /\ UNCHANGED <<redisStore, memoryCache, heap, now>>

\* lines 364-371: the cleanup of the puzzle assets, whose failure is logged
\* and not thrown; the object storage is not a variable of this model
DeleteTask_Assets(p) ==
    /\ calls[p].pc = "dt_assets"
    /\ calls' = [calls EXCEPT ![p] = Goto([@ EXCEPT !.loc = JsTrue], "dt_cachedel")]
    /\ UNCHANGED <<tasks, task_attempts, user_rewards, redisStore, memoryCache, heap, now>>

\* line 374
DeleteTask_CacheDel(p) == CacheDel_Redis(p, "dt_cachedel", "dt_return")
\* lines 374-382
DeleteTask_Return(p) == CacheDel_MemoryAndReturn(p, "dt_return")

(***************************************************************************)
(* recordAttempt (service.js, lines 503-574)                               *)
(***************************************************************************)
FOREIGN_KEY_VIOLATION == "23503"

\* the table without its unique constraint
AttemptsUniqueOk_Unconstrained(taskId, userId) == TRUE

\* UNIQUE(task_id, user_id) of task_attempts (part_004, line 185): may the
\* row be inserted?
AttemptsUniqueOk(taskId, userId) == AttemptsOfUser(taskId, userId) = {}

\* Trigger update_task_counts, AFTER INSERT ON task_attempts (part_004,
\* lines 390-416): the tasks table after the insert of row
update_task_attempt_counts(tbl, row) ==
    [tbl EXCEPT ![row.task_id] =
        [@ EXCEPT !.attempt_count = @ + 1,
                  !.conversion_count = IF row.is_successful THEN @ + 1 ELSE @]]

\* the start without the read of task_attempts
RecordAttempt_Start_NoPriorCheck(p, taskId, userId, attemptData) ==
    /\ CanStart(p)
    /\ calls' = [calls EXCEPT ![p] =
           Goto(Begin("recordAttempt", taskId, userId, NullStr, attemptData), "ra_task")]
    /\ UNCHANGED <<tasks, task_attempts, user_rewards, redisStore, memoryCache, heap, now>>

\* lines 506-514: SELECT id FROM task_attempts WHERE task_id = $1 AND user_id = $2
RecordAttempt_Start(p, taskId, userId, attemptData) ==
    /\ CanStart(p)
    /\ LET c == Begin("recordAttempt", taskId, userId, NullStr, attemptData) IN
       calls' = [calls EXCEPT ![p] =
           IF AttemptsOfUser(taskId, userId) # {} THEN Throw(c, ConflictError)
           ELSE Goto(c, "ra_task")]
    /\ UNCHANGED <<tasks, task_attempts, user_rewards, redisStore, memoryCache, heap, now>>

\* the test of expires_at left out
TaskExpired_Never(task) == FALSE

\* line 529: task.expires_at && new Date() > new Date(task.expires_at)
TaskExpired(task) == task.expires_at # 0 /\ now > task.expires_at

\* lines 516-531: SELECT * FROM tasks WHERE id = $1 AND status = 'active'
RecordAttempt_SelectTask(p) ==
    /\ calls[p].pc = "ra_task"
    /\ LET c == calls[p] IN
       calls' = [calls EXCEPT ![p] =
           IF ~(TaskExists(c.tid) /\ tasks[c.tid].status = "active")
           THEN Throw(c, NotFoundError)
           ELSE IF TaskExpired(tasks[c.tid])
           THEN Throw(c, GoneError)
           ELSE Goto(c, "ra_insert")]
    /\ UNCHANGED <<tasks, task_attempts, user_rewards, redisStore, memoryCache, heap, now>>

NewAttemptRow(c) ==
    [id |-> Len(task_attempts) + 1,
     task_id |-> c.tid,
     user_id |-> c.uid,
     time_taken_seconds |-> c.data.time_taken_seconds,
     is_successful |-> c.data.is_successful]

\* lines 533-551: INSERT INTO task_attempts ... RETURNING *, under the
\* table's constraints, with the AFTER INSERT trigger in the same statement
RecordAttempt_Insert(p) ==
    /\ calls[p].pc = "ra_insert"
    /\ LET c == calls[p]
           row == NewAttemptRow(c)
       IN
       IF ~TaskExists(c.tid)
       THEN /\ calls' = [calls EXCEPT ![p] = Throw(c, DatabaseError(FOREIGN_KEY_VIOLATION))]
            /\ UNCHANGED <<tasks, task_attempts>>
       ELSE IF ~AttemptsUniqueOk(c.tid, c.uid)
       THEN /\ calls' = [calls EXCEPT ![p] = Throw(c, DatabaseError(UNIQUE_VIOLATION))]
            /\ UNCHANGED <<tasks, task_attempts>>
       ELSE /\ task_attempts' = Append(task_attempts, row)
            /\ tasks' = update_task_attempt_counts(tasks, row)
            /\ calls' = [calls EXCEPT ![p] = Goto([c EXCEPT !.loc = row], "ra_update")]
    /\ UNCHANGED <<user_rewards, redisStore, memoryCache, heap, now>>

\* lines 553-561: UPDATE tasks SET attempt_count = attempt_count + 1, ...
RecordAttempt_UpdateCounts(p) ==
    /\ calls[p].pc = "ra_update"
    /\ LET c == calls[p] IN
       /\ tasks' = IF TaskExists(c.tid)
                   THEN [tasks EXCEPT ![c.tid] =
                           [@ EXCEPT !.attempt_count = @ + 1,
                                     !.conversion_count =
                                         IF c.data.is_successful THEN @ + 1 ELSE @]]
                   ELSE tasks
       /\ calls' = [calls EXCEPT ![p] = Goto(c, "ra_cachedel")]
    /\ UNCHANGED <<task_attempts, user_rewards, redisStore, memoryCache, heap, now>>

\* line 564
RecordAttempt_CacheDel(p) == CacheDel_Redis(p, "ra_cachedel", "ra_return")
\* lines 564-573
RecordAttempt_Return(p) == CacheDel_MemoryAndReturn(p, "ra_return")

(***************************************************************************)
(* createReward (users/service.js, lines 279-330)                          *)
(***************************************************************************)
REWARD_EXPIRY_DAYS == 30

\* the codes generateRewardCode (lines 661-666) is let to produce here
RewardCodes == {"TL-A", "TL-B"}

RewardsOf(userId, taskId) ==
    {i \in 1..Len(user_rewards) :
        user_rewards[i].user_id = userId /\ user_rewards[i].task_id = taskId}

\* UNIQUE reward_code of user_rewards (part_004, line 202)
RewardCodeUniqueOk(code) ==
    \A i \in 1..Len(user_rewards) : user_rewards[i].reward_code # code

\* lines 281-288: SELECT id FROM user_rewards WHERE user_id = $1 AND task_id = $2
CreateReward_Start(p, userId, taskId) ==
    /\ CanStart(p)
    /\ LET c == Begin("createReward", taskId, userId, NullStr, NULL) IN
       calls' = [calls EXCEPT ![p] =
           IF RewardsOf(userId, taskId) # {} THEN Throw(c, ConflictError)
           ELSE Goto(c, "cr_task")]
    /\ UNCHANGED <<tasks, task_attempts, user_rewards, redisStore, memoryCache, heap, now>>

\* the expiry date without the validity window
RewardExpiresAt_NoWindow == now

\* lines 306-307: new Date(Date.now() + expiryDays * 24 * 60 * 60 * 1000)
RewardExpiresAt == now + REWARD_EXPIRY_DAYS

\* lines 290-307: SELECT reward_type, reward_value ... FROM tasks WHERE id = $1,
\* then the reward code and the expiry date
CreateReward_SelectTask(p, rewardCode) ==
    /\ calls[p].pc = "cr_task"
    /\ rewardCode \in RewardCodes
    /\ LET c == calls[p] IN
       calls' = [calls EXCEPT ![p] =
           IF ~TaskExists(c.tid) THEN Throw(c, NotFoundError)
           ELSE Goto([c EXCEPT !.loc =
                        [user_id |-> c.uid,
                         task_id |-> c.tid,
                         reward_code |-> rewardCode,
                         reward_type |-> tasks[c.tid].reward_type,
                         reward_value |-> tasks[c.tid].reward_value,
                         is_redeemed |-> FALSE,
                         redeemed_at |-> 0,
                         expires_at |-> RewardExpiresAt]],
                     "cr_insert")]
    /\ UNCHANGED <<tasks, task_attempts, user_rewards, redisStore, memoryCache, heap, now>>

\* lines 310-329: INSERT INTO user_rewards ... RETURNING *
CreateReward_Insert(p) ==
    /\ calls[p].pc = "cr_insert"
    /\ LET c == calls[p]
           row == [id |-> Len(user_rewards) + 1] @@ c.loc
       IN
       IF ~TaskExists(c.tid)
       THEN /\ calls' = [calls EXCEPT ![p] = Throw(c, DatabaseError(FOREIGN_KEY_VIOLATION))]
            /\ user_rewards' = user_rewards
       ELSE IF ~RewardCodeUniqueOk(c.loc.reward_code)
       THEN /\ calls' = [calls EXCEPT ![p] = Throw(c, DatabaseError(UNIQUE_VIOLATION))]
            /\ user_rewards' = user_rewards
       ELSE /\ user_rewards' = Append(user_rewards, row)
            /\ calls' = [calls EXCEPT ![p] = Return(c, row)]
    /\ UNCHANGED <<tasks, task_attempts, redisStore, memoryCache, heap, now>>

(***************************************************************************)
(* redeemReward (users/service.js, lines 338-398)                          *)
(***************************************************************************)
\* the lookup by the code alone
RewardByCode_AnyUser(rewardCode, userId) ==
    LET hits == {i \in 1..Len(user_rewards) :
                    /\ user_rewards[i].reward_code = rewardCode
                    /\ TaskExists(user_rewards[i].task_id)}
    IN IF hits = {} THEN 0 ELSE CHOOSE i \in hits : TRUE

\* lines 340-350: the reward with this code that belongs to the user, or 0
RewardByCode(rewardCode, userId) ==
    LET hits == {i \in 1..Len(user_rewards) :
                    /\ user_rewards[i].reward_code = rewardCode
                    /\ user_rewards[i].user_id = userId
                    /\ TaskExists(user_rewards[i].task_id)}
    IN IF hits = {} THEN 0 ELSE CHOOSE i \in hits : TRUE

\* the start without the test of is_redeemed
RedeemReward_Start_NoRedeemedTest(p, userId, rewardCode) ==
    /\ CanStart(p)
    /\ LET c == Begin("redeemReward", 0, userId, NullStr, [reward_code |-> rewardCode])
           i == RewardByCode(rewardCode, userId)
       IN
       calls' = [calls EXCEPT ![p] =
           IF i = 0 THEN Throw(c, NotFoundError)
           ELSE IF now > user_rewards[i].expires_at THEN Throw(c, GoneError)
           ELSE Goto([c EXCEPT !.loc = user_rewards[i]], "rr_update")]
    /\ UNCHANGED <<tasks, task_attempts, user_rewards, redisStore, memoryCache, heap, now>>

\* lines 340-366: the SELECT and the checks on the row read
RedeemReward_Start(p, userId, rewardCode) ==
    /\ CanStart(p)
    /\ LET c == Begin("redeemReward", 0, userId, NullStr, [reward_code |-> rewardCode])
           i == RewardByCode(rewardCode, userId)
       IN
       calls' = [calls EXCEPT ![p] =
           IF i = 0 THEN Throw(c, NotFoundError)
           ELSE IF user_rewards[i].is_redeemed THEN Throw(c, ConflictError)
           ELSE IF now > user_rewards[i].expires_at THEN Throw(c, GoneError)
           ELSE Goto([c EXCEPT !.loc = user_rewards[i]], "rr_update")]
    /\ UNCHANGED <<tasks, task_attempts, user_rewards, redisStore, memoryCache, heap, now>>

\* the update that also copies the task's present reward into the row
RedeemReward_Update_CopyTask(p) ==
    /\ calls[p].pc = "rr_update"
    /\ LET c == calls[p] IN
       /\ user_rewards' =
            [i \in 1..Len(user_rewards) |->
                IF user_rewards[i].id = c.loc.id
                THEN [user_rewards[i] EXCEPT
                        !.is_redeemed = TRUE, !.redeemed_at = now,
                        !.reward_type = tasks[user_rewards[i].task_id].reward_type,
                        !.reward_value = tasks[user_rewards[i].task_id].reward_value]
                ELSE user_rewards[i]]
       /\ calls' = [calls EXCEPT ![p] = Return(c, [c.loc EXCEPT !.redeemed_at = now])]
    /\ UNCHANGED <<tasks, task_attempts, redisStore, memoryCache, heap, now>>

\* lines 369-397: UPDATE user_rewards SET is_redeemed = true,
\* redeemed_at = CURRENT_TIMESTAMP WHERE id = $1
RedeemReward_Update(p) ==
    /\ calls[p].pc = "rr_update"
    /\ LET c == calls[p] IN
       /\ user_rewards' =
            [i \in 1..Len(user_rewards) |->
                IF user_rewards[i].id = c.loc.id
                THEN [user_rewards[i] EXCEPT !.is_redeemed = TRUE, !.redeemed_at = now]
                ELSE user_rewards[i]]
       /\ calls' = [calls EXCEPT ![p] = Return(c, [c.loc EXCEPT !.redeemed_at = now])]
    /\ UNCHANGED <<tasks, task_attempts, redisStore, memoryCache, heap, now>>

\* time passes
Tick ==
    /\ now + TickDays <= MaxNow
    /\ now' = now + TickDays
    /\ UNCHANGED <<tasks, task_attempts, user_rewards, redisStore, memoryCache, heap, calls>>

(***************************************************************************)
(* Inputs of the requests                                                  *)
(***************************************************************************)
ValidTaskData ==
    [title |-> <<"P", "i", "z">>,
     description |-> <<>>,
     task_type |-> "image-puzzle",
     difficulty |-> "easy",
     reward_type |-> "discount",
     reward_value |-> <<"2", "0">>,
     reward_description |-> Str(10, "d"),
     image_file |-> "valid"]
NoImageTaskData == [ValidTaskData EXCEPT !.image_file = NullStr]

CreateInputs ==
    {ValidTaskData,
     NoImageTaskData,
     [ValidTaskData EXCEPT !.image_file = "invalid"],
     [ValidTaskData EXCEPT !.reward_value = <<"0">>]}

UpdateInputs ==
    {[reward_value |-> 50],
     [reward_value |-> 0],
     [title |-> <<"L", "o", "g", "o">>],
     [status |-> "active"]}

FeatureDays == {7}

AttemptInputs == {[is_successful |-> b, time_taken_seconds |-> 45] : b \in BOOLEAN}

(***************************************************************************)
(* The operations, each the disjunction of its steps                       *)
(***************************************************************************)
CreateTask(p, companies, inputs) ==
    \/ \E companyId \in companies, d \in inputs : CreateTask_Start(p, companyId, d)
    \/ \E s3ok \in BOOLEAN, shuffled \in Shuffles(9) \cup Shuffles(16) \cup Shuffles(25) :
            CreateTask_Generate(p, s3ok, shuffled)
    \/ \E form \in JsonForms : CreateTask_Insert(p, form)
    \/ CreateTask_CacheSet(p)
    \/ CreateTask_Return(p)

GetTask(p, users) ==
    \/ \E taskId \in TaskIds, userId \in users : GetTask_Start(p, taskId, userId)
    \/ \E form \in JsonForms : GetTask_AfterRedis(p, form)
    \/ GetTask_CacheSet(p)
    \/ GetTask_SetMemory(p)
    \/ GetTask_Finish(p)

UpdateTask(p, companies, inputs) ==
    \/ \E taskId \in TaskIds, companyId \in companies, u \in inputs :
            UpdateTask_Start(p, taskId, companyId, u)
    \/ UpdateTask_Update(p)
    \/ UpdateTask_CacheDel(p)
    \/ UpdateTask_Return(p)

PublishTask(p, companies) ==
    \/ \E taskId \in TaskIds, companyId \in companies : PublishTask_Start(p, taskId, companyId)
    \/ PublishTask_Update(p)
    \/ PublishTask_CacheDel(p)
    \/ PublishTask_Return(p)

FeatureTask(p, companies) ==
    \/ \E taskId \in TaskIds, companyId \in companies, days \in FeatureDays :
            FeatureTask_Start(p, taskId, companyId, days)
    \/ FeatureTask_Update(p)
    \/ FeatureTask_CacheDel(p)
    \/ FeatureTask_Return(p)

DeleteTask(p, companies) ==
    \/ \E taskId \in TaskIds, companyId \in companies : DeleteTask_Start(p, taskId, companyId)
    \/ \E committed \in BOOLEAN : DeleteTask_Transaction(p, committed)
    \/ DeleteTask_Assets(p)
    \/ DeleteTask_CacheDel(p)
    \/ DeleteTask_Return(p)

RecordAttempt(p, users, inputs) ==
    \/ \E taskId \in TaskIds, userId \in users, d \in inputs :
            RecordAttempt_Start(p, taskId, userId, d)
    \/ RecordAttempt_SelectTask(p)
    \/ RecordAttempt_Insert(p)
    \/ RecordAttempt_UpdateCounts(p)
    \/ RecordAttempt_CacheDel(p)
    \/ RecordAttempt_Return(p)

CreateReward(p, users) ==
    \/ \E userId \in users, taskId \in TaskIds : CreateReward_Start(p, userId, taskId)
    \/ \E rewardCode \in RewardCodes : CreateReward_SelectTask(p, rewardCode)
    \/ CreateReward_Insert(p)

RedeemReward(p, users) ==
    \/ \E userId \in users, rewardCode \in RewardCodes : RedeemReward_Start(p, userId, rewardCode)
    \/ RedeemReward_Update(p)

CacheExpiry == \E key \in TaskIds : RedisExpire(key) \/ MemoryExpire(key)

(***************************************************************************)
(* Stored states the specifications start from.  Besides the empty         *)
(* database these are rows of the schema: DraftTaskNoImage is the row      *)
(* createTask inserts for company c1, DraftTask a stored draft of c1 that  *)
(* has an image and the configuration generateImagePuzzle builds for it,   *)
(* ActiveTask that row after publishTask (lines 416-424) has updated it.   *)
(***************************************************************************)
DraftTask == NewTaskRow("c1", ValidTaskData, ImageUrl, PuzzleConfig(9, Reversed(9)))
DraftTaskNoImage == NewTaskRow("c1", NoImageTaskData, NullStr, NULL)
ActiveTask == [DraftTask EXCEPT !.status = "active"]

EmptyTasks == [id \in TaskIds |-> NULL]
OneTask(row) == [id \in TaskIds |-> IF id = 1 THEN row ELSE NULL]

\* the state with the given tables, empty caches and no request under way
InitWith(taskTables, attemptTables, rewardTables) ==
    /\ tasks \in taskTables
    /\ task_attempts \in attemptTables
    /\ user_rewards \in rewardTables
    /\ redisStore = [id \in TaskIds |-> NULL]
    /\ memoryCache = [id \in TaskIds |-> 0]
    /\ heap = [p \in Procs |-> NULL]
    /\ calls = [p \in Procs |-> Idle]
    /\ now = 1

(***************************************************************************)
(* Spec: the task lifecycle (createTask, updateTask, publishTask,          *)
(* featureTask), from the empty database or a stored draft.                *)
(***************************************************************************)
Init == InitWith({EmptyTasks, OneTask(DraftTask), OneTask(DraftTaskNoImage)}, {<<>>}, {<<>>})

Next ==
    \/ \E p \in Procs : CreateTask(p, {"c1"}, CreateInputs)
    \/ \E p \in Procs : UpdateTask(p, Companies, UpdateInputs)
    \/ \E p \in Procs : PublishTask(p, Companies)
    \/ \E p \in Procs : FeatureTask(p, Companies)

Spec == Init /\ [][Next]_vars

(***************************************************************************)
(* SpecAttempt: players record attempts on a published task.               *)
(***************************************************************************)
InitAttempt == InitWith({OneTask(ActiveTask)}, {<<>>}, {<<>>})

NextAttempt == \E p \in Procs : RecordAttempt(p, Users, AttemptInputs)

SpecAttempt == InitAttempt /\ [][NextAttempt]_vars

(***************************************************************************)
(* SpecRead: reads of a task through the cache, among the operations that  *)
(* write the task.                                                         *)
(***************************************************************************)
InitRead ==
    InitWith({EmptyTasks, OneTask(DraftTask), OneTask(ActiveTask)}, {<<>>}, {<<>>})

NextRead ==
    \/ \E p \in Procs : CreateTask(p, {"c1"}, {ValidTaskData, NoImageTaskData})
    \/ \E p \in Procs : GetTask(p, {"u1", NullStr})
    \/ \E p \in Procs : UpdateTask(p, {"c1"}, {[reward_value |-> 50]})
    \/ \E p \in Procs : PublishTask(p, {"c1"})
    \/ \E p \in Procs : FeatureTask(p, {"c1"})
    \/ \E p \in Procs : RecordAttempt(p, {"u1"}, AttemptInputs)
    \/ CacheExpiry

SpecRead == InitRead /\ [][NextRead]_vars

(***************************************************************************)
(* SpecReward: rewards are issued and redeemed for a published task.       *)
(***************************************************************************)
InitReward == InitWith({OneTask(ActiveTask)}, {<<>>}, {<<>>})

NextReward ==
    \/ \E p \in Procs : CreateReward(p, Users)
    \/ \E p \in Procs : RedeemReward(p, Users)
    \/ Tick

SpecReward == InitReward /\ [][NextReward]_vars

(***************************************************************************)
(* SpecRedeem: as SpecReward, from a state in which createReward has       *)
(* issued a reward to u1 on day 1.                                         *)
(***************************************************************************)
IssuedReward ==
    [id |-> 1,
     user_id |-> "u1",
     task_id |-> 1,
     reward_code |-> "TL-A",
     reward_type |-> ActiveTask.reward_type,
     reward_value |-> ActiveTask.reward_value,
     is_redeemed |-> FALSE,
     redeemed_at |-> 0,
     expires_at |-> 1 + REWARD_EXPIRY_DAYS]

InitRedeem == InitWith({OneTask(ActiveTask)}, {<<>>}, {<<IssuedReward>>})

SpecRedeem == InitRedeem /\ [][NextReward]_vars

(***************************************************************************)
(* Properties                                                              *)
(***************************************************************************)
IsCall(p, op) == calls[p].op = op
SamePair(p, q) == calls[p].tid = calls[q].tid /\ calls[p].uid = calls[q].uid

\* C1: in every reachable state there is at most one Attempt row per
\* (task_id, user_id), whatever the interleaving of recordAttempt calls.
C1_OneAttemptPerPair ==
    \A i, j \in 1..Len(task_attempts) :
        (/\ task_attempts[i].task_id = task_attempts[j].task_id
         /\ task_attempts[i].user_id = task_attempts[j].user_id) => i = j

\* C1 witness: two calls for one pair both passed the existence check, one
\* inserted its row and the other was refused by the unique constraint.
C1_Witness ==
    \E p, q \in Procs :
        /\ p # q /\ IsCall(p, "recordAttempt") /\ IsCall(q, "recordAttempt")
        /\ SamePair(p, q)
        /\ Succeeded(p)
        /\ Failed(q, "DatabaseError") /\ calls[q].err.code = UNIQUE_VIOLATION
        /\ Cardinality(AttemptsOfUser(calls[p].tid, calls[p].uid)) = 1

\* C2: of the recordAttempt calls for one (task, user) on an active task
\* without a prior attempt, one returns the attempt and every other one is
\* answered with ConflictError (409 CONFLICT) and no other error kind.
C2_LosersGetConflict ==
    \A p \in Procs :
        (/\ IsCall(p, "recordAttempt") /\ Done(p)
         /\ TaskExists(calls[p].tid) /\ tasks[calls[p].tid].status = "active")
        => \/ Succeeded(p)
           \/ /\ calls[p].err # NULL
              /\ errorHandler(calls[p].err) = errorHandler(ConflictError)

\* C3: when no recordAttempt call is under way, every task's attempt_count is
\* the number of its Attempt rows and its conversion_count the number of its
\* successful ones.
C3_CountsMatchRows ==
    (\A p \in Procs : calls[p].pc \in {"idle", "done"})
    => \A id \in TaskIds :
            tasks[id] # NULL =>
                /\ tasks[id].attempt_count = Cardinality(AttemptsOf(id))
                /\ tasks[id].conversion_count = Cardinality(SuccessfulAttemptsOf(id))

\* does a puzzle_config value, JSON text or object, carry the solution?
Exposes(x) ==
    /\ x # NULL
    /\ IF IsJsonText(x) THEN HasSolution(JSONparse(x)) ELSE HasSolution(x)

\* C4: no value returned by getTask contains the puzzle's correct_solution,
\* whether the task came from the database, from Redis or from the memory cache.
C4_GetTaskHidesSolution ==
    \A p \in Procs :
        (IsCall(p, "getTask") /\ Succeeded(p)) => ~Exposes(calls[p].ret.row.puzzle_config)

\* C4 witness: a getTask served from Redis returned a task with its puzzle.
C4_Witness ==
    \E p \in Procs :
        /\ IsCall(p, "getTask") /\ Succeeded(p)
        /\ calls[p].data.from = "redis"
        /\ calls[p].ret.row.puzzle_config # NULL

\* C5: for any reward at most one redeemReward call of its owner succeeds;
\* every other call fails with ConflictError.
C5_RedeemedOnce ==
    \A p, q \in Procs :
        (/\ IsCall(p, "redeemReward") /\ IsCall(q, "redeemReward")
         /\ calls[p].data = calls[q].data /\ calls[p].uid = calls[q].uid
         /\ Succeeded(p) /\ Succeeded(q)) => p = q

\* C6: every task whose status is active has a non-null image reference and
\* reward_value > 0.
C6_ActiveHasImageAndReward ==
    \A id \in TaskIds :
        (tasks[id] # NULL /\ tasks[id].status = "active")
        => tasks[id].image_url # NullStr /\ tasks[id].reward_value > 0

\* C6 witness: publishTask has made a task active.
C6_Witness ==
    \E p \in Procs :
        /\ IsCall(p, "publishTask") /\ Succeeded(p)
        /\ tasks[calls[p].tid] # NULL /\ tasks[calls[p].tid].status = "active"

\* C7: of the publishTask calls for one draft task at most one applies the
\* transition and reports a successful publish.
C7_PublishAppliedOnce ==
    \A p, q \in Procs :
        (/\ IsCall(p, "publishTask") /\ IsCall(q, "publishTask")
         /\ calls[p].tid = calls[q].tid
         /\ Succeeded(p) /\ Succeeded(q)) => p = q

ImmutableFields(row) ==
    <<row.title, row.description, row.difficulty, row.reward_value, row.reward_description>>

\* C8: once a task is active its title, description, difficulty, reward_value
\* and reward_description never change.
C8_ActiveTaskImmutable ==
    [][\A id \in TaskIds :
          (tasks[id] # NULL /\ tasks[id].status = "active")
          => (tasks'[id] # NULL /\ ImmutableFields(tasks'[id]) = ImmutableFields(tasks[id]))]_vars

\* C9: there is at most one Reward per (user_id, task_id), also when
\* createReward calls for one pair run concurrently.
C9_OneRewardPerPair ==
    \A i, j \in 1..Len(user_rewards) :
        (/\ user_rewards[i].user_id = user_rewards[j].user_id
         /\ user_rewards[i].task_id = user_rewards[j].task_id) => i = j

\* C10: every Reward row for (user, task) has an Attempt row of that user on
\* that task with is_successful = true.
C10_RewardHasSuccessfulAttempt ==
    \A i \in 1..Len(user_rewards) :
        \E j \in 1..Len(task_attempts) :
            /\ task_attempts[j].user_id = user_rewards[i].user_id
            /\ task_attempts[j].task_id = user_rewards[i].task_id
            /\ task_attempts[j].is_successful

(***************************************************************************)
(* SpecAttemptLive: the players' requests are served to completion.  The   *)
(* repository has no caller of createReward (no route, no job, no trigger  *)
(* invokes it), so nothing schedules it: it may run, without fairness.     *)
(***************************************************************************)
NextAttemptLive ==
    \/ NextAttempt
    \/ \E p \in Procs : CreateReward(p, Users)

SpecAttemptLive == InitAttempt /\ [][NextAttemptLive]_vars /\ WF_vars(NextAttempt)

HasSuccessfulAttempt(userId, taskId) ==
    \E j \in 1..Len(task_attempts) :
        /\ task_attempts[j].user_id = userId
        /\ task_attempts[j].task_id = taskId
        /\ task_attempts[j].is_successful

\* C11: whenever recordAttempt has committed a successful attempt of a user on
\* a task, a Reward with a code and an expiry is eventually issued for that
\* (user, task).
C11_SuccessLeadsToReward ==
    \A userId \in Users, taskId \in TaskIds :
        HasSuccessfulAttempt(userId, taskId)
        ~> (\E i \in RewardsOf(userId, taskId) :
                /\ user_rewards[i].reward_code \in RewardCodes
                /\ user_rewards[i].expires_at > 0)

(***************************************************************************)
(* SpecStatus: the operations that touch a task, with updateTask bodies    *)
(* that name the status column.                                            *)
(***************************************************************************)
StatusUpdateInputs ==
    {[status |-> "blocked", reward_value |-> 50],
     [status |-> "draft", title |-> <<"L", "o", "g", "o">>]}

InitStatus ==
    InitWith({EmptyTasks, OneTask(DraftTask), OneTask(ActiveTask)}, {<<>>}, {<<>>})

NextStatus ==
    \/ \E p \in Procs : CreateTask(p, {"c1"}, {ValidTaskData, NoImageTaskData})
    \/ \E p \in Procs : UpdateTask(p, {"c1"}, StatusUpdateInputs)
    \/ \E p \in Procs : PublishTask(p, {"c1"})
    \/ \E p \in Procs : FeatureTask(p, {"c1"})
    \/ \E p \in Procs : RecordAttempt(p, {"u1"}, {[is_successful |-> TRUE, time_taken_seconds |-> 45]})

SpecStatus == InitStatus /\ [][NextStatus]_vars

\* the step is the UPDATE statement of a call of the operation on the task
IsUpdateStepOf(op, from, id) ==
    \E p \in Procs :
        /\ calls[p].op = op /\ calls[p].tid = id
        /\ calls[p].pc = from /\ calls'[p].pc # from

\* C12: a task is created in draft; its status changes only in publishTask's
\* update and only from draft to active; featureTask's update leaves the task
\* active with is_featured set; no step makes a task blocked or takes an
\* active task back to draft.
C12_StatusOnlyDraftToActive ==
    [][\A id \in TaskIds :
          /\ (tasks[id] = NULL /\ tasks'[id] # NULL) => tasks'[id].status = "draft"
          /\ (tasks[id] # NULL /\ tasks'[id] # NULL /\ tasks'[id].status # tasks[id].status)
             => /\ tasks[id].status = "draft"
                /\ tasks'[id].status = "active"
                /\ IsUpdateStepOf("publishTask", "pt_update", id)
          /\ (tasks[id] # NULL /\ tasks'[id] # tasks[id]
                /\ IsUpdateStepOf("featureTask", "ft_update", id))
             => /\ tasks'[id].status = "active"
                /\ tasks'[id].is_featured
                /\ tasks'[id].featured_until > 0]_vars

\* C12 witness: a task that was created in draft and published has been
\* featured and is still active.
C12_Witness ==
    \E p, q \in Procs :
        /\ IsCall(p, "publishTask") /\ Succeeded(p)
        /\ IsCall(q, "featureTask") /\ Succeeded(q)
        /\ calls[p].tid = calls[q].tid
        /\ tasks[calls[q].tid].status = "active"
        /\ tasks[calls[q].tid].is_featured

\* the step in which slot p takes a request of the operation
Starts(p, op) == calls[p].pc = "idle" /\ calls'[p].op = op
\* the step in which the request of slot p ends with an error
Fails(p, op) ==
    /\ calls'[p].op = op
    /\ calls[p].pc # "done" /\ calls'[p].pc = "done" /\ calls'[p].err # NULL

\* C13: publishTask that reads an owned task which is not draft fails with
\* ForbiddenError; on a draft with no image or reward_value <= 0 it fails with
\* ValidationError; a failing publishTask leaves the tasks as they are;
\* otherwise its update makes the task active and it returns the active task.
C13_PublishErrors ==
    [][\A p \in Procs :
          /\ Starts(p, "publishTask") =>
                LET c == calls'[p]
                    task == OwnedTask(c.tid, c.cid)
                IN task # NULL =>
                     IF task.status # "draft"
                     THEN c.pc = "done" /\ c.err = ForbiddenError
                     ELSE IF task.image_url = NullStr \/ task.reward_value <= 0
                     THEN c.pc = "done" /\ c.err = ValidationError
                     ELSE c.pc = "pt_update" /\ c.err = NULL
          /\ Fails(p, "publishTask") => tasks' = tasks
          /\ (calls[p].pc = "pt_update" /\ calls'[p].pc # "pt_update"
                /\ OwnedTask(calls[p].tid, calls[p].cid) # NULL)
             => /\ tasks'[calls[p].tid].status = "active"
                /\ calls'[p].loc.status = "active"
                /\ calls'[p].err = NULL]_vars

\* C13 witness: one publishTask made the draft active and returned it, a
\* later one on the same task, now active, failed with ForbiddenError.
C13_Witness ==
    \E p, q \in Procs :
        /\ IsCall(p, "publishTask") /\ Succeeded(p) /\ calls[p].ret.status = "active"
        /\ IsCall(q, "publishTask") /\ Failed(q, "ForbiddenError")
        /\ calls[p].tid = calls[q].tid /\ calls[p].cid = calls[q].cid
        /\ tasks[calls[p].tid].status = "active"

(***************************************************************************)
(* SpecExpiry: attempts on a task while time passes.  ExpiringTask is a    *)
(* published task whose expires_at column (part_004, line 155) holds day   *)
(* 1 + TickDays; the service reads the column (service.js, line 529) and   *)
(* no operation of it writes the column.                                   *)
(***************************************************************************)
ExpiringTask == [ActiveTask EXCEPT !.expires_at = 1 + TickDays]

InitExpiry ==
    InitWith({EmptyTasks, OneTask(DraftTask), OneTask(ExpiringTask)}, {<<>>}, {<<>>})

NextExpiry ==
    \/ \E p \in Procs : RecordAttempt(p, Users, AttemptInputs)
    \/ Tick

SpecExpiry == InitExpiry /\ [][NextExpiry]_vars

IsActive(id) == TaskExists(id) /\ tasks[id].status = "active"
\* the task is active and the clock is past its expires_at
IsExpired(id) == IsActive(id) /\ tasks[id].expires_at # 0 /\ now > tasks[id].expires_at

\* recordAttempt's two reads (lines 507-531) as a step of slot p
ChecksTask(p) ==
    /\ calls'[p].op = "recordAttempt"
    /\ calls[p].pc \in {"idle", "ra_task"}
    /\ calls'[p].pc # calls[p].pc

\* C14 as stated: a recordAttempt whose task does not exist or is not active
\* fails with NotFoundError, one whose active task has expired fails with
\* GoneError, and neither inserts a row nor changes a counter.
C14_AsStated ==
    [][\A p \in Procs :
          ChecksTask(p) =>
              LET id == calls'[p].tid IN
              /\ ~IsActive(id) => (calls'[p].pc = "done" => calls'[p].err = NotFoundError)
              /\ IsExpired(id) => (calls'[p].pc = "done" => calls'[p].err = GoneError)
              /\ (calls[p].pc = "ra_task" /\ (~IsActive(id) \/ IsExpired(id)))
                    => calls'[p].pc = "done"
              /\ task_attempts' = task_attempts /\ tasks' = tasks]_vars

\* C14, amended: the same for a user who has no attempt stored for the task;
\* a user who has one gets the ConflictError of the first read (lines 507-514),
\* whatever the state of the task.
C14_NoPriorAttempt ==
    [][\A p \in Procs :
          ChecksTask(p) =>
              LET id == calls'[p].tid
                  first == AttemptsOfUser(id, calls'[p].uid) = {}
              IN
              /\ (first /\ ~IsActive(id))
                    => (calls'[p].pc = "done" => calls'[p].err = NotFoundError)
              /\ (first /\ IsExpired(id))
                    => (calls'[p].pc = "done" => calls'[p].err = GoneError)
              /\ (~first /\ calls[p].pc = "idle")
                    => (calls'[p].pc = "done" /\ calls'[p].err = ConflictError)
              /\ (calls[p].pc = "ra_task" /\ (~IsActive(id) \/ IsExpired(id)))
                    => calls'[p].pc = "done"
              /\ task_attempts' = task_attempts /\ tasks' = tasks]_vars

\* C14 witness: a recordAttempt on the expired task has failed with GoneError
\* and the task has no attempt and no count.
C14_Witness ==
    \E p \in Procs :
        /\ IsCall(p, "recordAttempt") /\ Failed(p, "GoneError")
        /\ IsExpired(calls[p].tid)
        /\ AttemptsOf(calls[p].tid) = {}
        /\ tasks[calls[p].tid].attempt_count = 0
        /\ tasks[calls[p].tid].conversion_count = 0

\* C15: a recordAttempt that starts when an attempt of the user for the task
\* is stored fails with ConflictError at once, inserts no row and changes no
\* counter.
C15_DuplicateAttemptConflict ==
    [][\A p \in Procs :
          (Starts(p, "recordAttempt")
             /\ AttemptsOfUser(calls'[p].tid, calls'[p].uid) # {})
          => /\ calls'[p].pc = "done"
             /\ calls'[p].err = ConflictError
             /\ task_attempts' = task_attempts
             /\ tasks' = tasks]_vars

\* C15 witness: the first call of the user has returned its attempt, the
\* second one, started afterwards, has failed with ConflictError; one row.
C15_Witness ==
    \E p, q \in Procs :
        /\ p < q /\ IsCall(p, "recordAttempt") /\ IsCall(q, "recordAttempt")
        /\ SamePair(p, q)
        /\ Succeeded(p) /\ Failed(q, "ConflictError")
        /\ Cardinality(AttemptsOfUser(calls[p].tid, calls[p].uid)) = 1

\* the reward the request that slot p takes in this step will read, or 0
RewardRead(p) == RewardByCode(calls'[p].data.reward_code, calls'[p].uid)

\* C16: a redeemReward of the owner that reads a redeemed reward fails with
\* ConflictError and leaves the rewards, is_redeemed and redeemed_at included,
\* as they are; no step sets is_redeemed of a reward back to false.
C16_RedeemedStaysRedeemed ==
    [][/\ \A p \in Procs :
            (Starts(p, "redeemReward") /\ RewardRead(p) # 0
                /\ user_rewards[RewardRead(p)].is_redeemed)
            => /\ calls'[p].pc = "done"
               /\ calls'[p].err = ConflictError
               /\ user_rewards' = user_rewards
       /\ \A i \in 1..Len(user_rewards) :
            user_rewards[i].is_redeemed
            => \E j \in 1..Len(user_rewards') :
                  /\ user_rewards'[j].id = user_rewards[i].id
                  /\ user_rewards'[j].is_redeemed]_vars

\* C16 witness: the reward was redeemed by one call; a second call of the
\* owner has failed with ConflictError and the stamp is the first call's.
C16_Witness ==
    \E p, q \in Procs :
        /\ IsCall(p, "redeemReward") /\ IsCall(q, "redeemReward")
        /\ calls[p].uid = calls[q].uid /\ calls[p].data = calls[q].data
        /\ Succeeded(p) /\ Failed(q, "ConflictError")
        /\ \E i \in 1..Len(user_rewards) :
              /\ user_rewards[i].id = calls[p].ret.id
              /\ user_rewards[i].is_redeemed
              /\ user_rewards[i].redeemed_at = calls[p].ret.redeemed_at

\* C17: createReward computes expires_at as the time of issuance plus the
\* validity window and stores that value; a redeemReward of the owner that
\* reads an unredeemed reward after its expires_at fails with GoneError and
\* leaves the rewards as they are.
C17_ExpiryWindow ==
    [][\A p \in Procs :
          /\ (calls[p].pc = "cr_task" /\ calls'[p].pc = "cr_insert")
             => calls'[p].loc.expires_at = now + REWARD_EXPIRY_DAYS
          /\ (calls[p].pc = "cr_insert" /\ calls'[p].pc = "done" /\ calls'[p].err = NULL)
             => /\ Len(user_rewards') = Len(user_rewards) + 1
                /\ user_rewards'[Len(user_rewards')].expires_at = calls[p].loc.expires_at
                /\ calls'[p].ret.expires_at = calls[p].loc.expires_at
          /\ (Starts(p, "redeemReward") /\ RewardRead(p) # 0
                /\ ~user_rewards[RewardRead(p)].is_redeemed
                /\ now > user_rewards[RewardRead(p)].expires_at)
             => /\ calls'[p].pc = "done"
                /\ calls'[p].err = GoneError
                /\ user_rewards' = user_rewards]_vars

\* C17 witness: createReward issued a reward on day 1, valid to day
\* 1 + REWARD_EXPIRY_DAYS; the owner's redeemReward after that day failed with
\* GoneError and the reward is stored, unredeemed.
C17_Witness ==
    \E p, q \in Procs :
        /\ IsCall(p, "createReward") /\ Succeeded(p)
        /\ calls[p].ret.expires_at = 1 + REWARD_EXPIRY_DAYS
        /\ IsCall(q, "redeemReward") /\ Failed(q, "GoneError")
        /\ calls[q].uid = calls[p].uid
        /\ calls[q].data.reward_code = calls[p].ret.reward_code
        /\ now > calls[p].ret.expires_at
        /\ \E i \in 1..Len(user_rewards) :
              user_rewards[i].id = calls[p].ret.id /\ ~user_rewards[i].is_redeemed

\* the rewards with the code that belong to another user than userId
ForeignRewards(rewardCode, userId) ==
    {i \in 1..Len(user_rewards) :
        user_rewards[i].reward_code = rewardCode /\ user_rewards[i].user_id # userId}

\* C18: a redeemReward with the code of a reward that belongs to another user
\* fails with NotFoundError and leaves the rewards as they are.
C18_OnlyOwnerRedeems ==
    [][\A p \in Procs :
          (Starts(p, "redeemReward")
             /\ ForeignRewards(calls'[p].data.reward_code, calls'[p].uid) # {})
          => /\ calls'[p].pc = "done"
             /\ calls'[p].err = NotFoundError
             /\ user_rewards' = user_rewards]_vars

\* C18 witness: another user's redeemReward with the code of u1's reward has
\* failed with NotFoundError and the reward is unredeemed.
C18_Witness ==
    \E p \in Procs :
        /\ IsCall(p, "redeemReward") /\ Failed(p, "NotFoundError")
        /\ \E i \in ForeignRewards(calls[p].data.reward_code, calls[p].uid) :
              ~user_rewards[i].is_redeemed /\ user_rewards[i].redeemed_at = 0

(***************************************************************************)
(* SpecRewardFrame: rewards of a task while its company edits, publishes   *)
(* and features it.  createReward does not look at the status of the task  *)
(* (lines 291-298), so a reward can exist for a draft.                     *)
(***************************************************************************)
InitRewardFrame ==
    InitWith({OneTask(DraftTask), OneTask(ActiveTask)}, {<<>>}, {<<>>, <<IssuedReward>>})

NextRewardFrame ==
    \/ \E p \in Procs : CreateReward(p, {"u1"})
    \/ \E p \in Procs : RedeemReward(p, {"u1"})
    \/ \E p \in Procs : UpdateTask(p, {"c1"}, {[reward_value |-> 50]})
    \/ \E p \in Procs : PublishTask(p, {"c1"})
    \/ \E p \in Procs : FeatureTask(p, {"c1"})

SpecRewardFrame == InitRewardFrame /\ [][NextRewardFrame]_vars

\* C19: createReward copies reward_type and reward_value from the task row it
\* reads and stores them; no later step changes them in a stored reward.
C19_RewardValueFrozen ==
    [][/\ \A p \in Procs :
            /\ (calls[p].pc = "cr_task" /\ calls'[p].pc = "cr_insert")
               => /\ calls'[p].loc.reward_type = tasks[calls[p].tid].reward_type
                  /\ calls'[p].loc.reward_value = tasks[calls[p].tid].reward_value
            /\ (calls[p].pc = "cr_insert" /\ calls'[p].pc = "done" /\ calls'[p].err = NULL)
               => /\ user_rewards'[Len(user_rewards')].reward_type = calls[p].loc.reward_type
                  /\ user_rewards'[Len(user_rewards')].reward_value = calls[p].loc.reward_value
       /\ \A i \in 1..Len(user_rewards) :
            /\ i <= Len(user_rewards')
            /\ user_rewards'[i].id = user_rewards[i].id
            /\ user_rewards'[i].reward_type = user_rewards[i].reward_type
            /\ user_rewards'[i].reward_value = user_rewards[i].reward_value]_vars

\* C19 witness: after the reward was issued the company changed the task's
\* reward_value; the reward has been redeemed and holds the value it was
\* issued with.
C19_Witness ==
    \E p, q \in Procs, i \in 1..Len(user_rewards) :
        /\ IsCall(p, "updateTask") /\ Succeeded(p)
        /\ IsCall(q, "redeemReward") /\ Succeeded(q)
        /\ user_rewards[i].task_id = calls[p].tid
        /\ user_rewards[i].is_redeemed
        /\ tasks[calls[p].tid].reward_value = 50
        /\ user_rewards[i].reward_value = DraftTask.reward_value

(***************************************************************************)
(* SpecOwnership: the operations of a company on a task, called by its     *)
(* owner c1 and by another company c2.  AttemptedTask, StoredAttempt and   *)
(* IssuedReward are the rows after u1's successful recordAttempt (the      *)
(* trigger and the UPDATE of lines 554-561 have both counted it) and a     *)
(* createReward for u1.                                                    *)
(***************************************************************************)
AttemptedTask == [ActiveTask EXCEPT !.attempt_count = 2, !.conversion_count = 2]

StoredAttempt ==
    [id |-> 1, task_id |-> 1, user_id |-> "u1",
     time_taken_seconds |-> 45, is_successful |-> TRUE]

InitOwnership ==
    \/ InitWith({OneTask(DraftTask)}, {<<>>}, {<<>>})
    \/ InitWith({OneTask(AttemptedTask)}, {<<StoredAttempt>>}, {<<IssuedReward>>})

NextOwnership ==
    \/ \E p \in Procs : UpdateTask(p, Companies, {[reward_value |-> 50]})
    \/ \E p \in Procs : PublishTask(p, Companies)
    \/ \E p \in Procs : FeatureTask(p, Companies)
    \/ \E p \in Procs : DeleteTask(p, Companies)

SpecOwnership == InitOwnership /\ [][NextOwnership]_vars

OwnerOperations == {"updateTask", "publishTask", "featureTask", "deleteTask"}

\* C20: updateTask, publishTask, featureTask and deleteTask called for a task
\* of another company fail with NotFoundError and leave the tasks, the
\* attempts and the rewards as they are.
C20_OnlyOwnerMutates ==
    [][\A p \in Procs :
          (/\ calls[p].pc = "idle" /\ calls'[p].op \in OwnerOperations
           /\ TaskExists(calls'[p].tid)
           /\ tasks[calls'[p].tid].company_id # calls'[p].cid)
          => /\ calls'[p].pc = "done"
             /\ calls'[p].err = NotFoundError
             /\ tasks' = tasks
             /\ task_attempts' = task_attempts
             /\ user_rewards' = user_rewards]_vars

\* C20 witness: company c2's deleteTask on c1's task has failed with
\* NotFoundError; the task, its attempt and its reward are stored.
C20_Witness ==
    \E p \in Procs :
        /\ IsCall(p, "deleteTask") /\ Failed(p, "NotFoundError")
        /\ TaskExists(calls[p].tid)
        /\ tasks[calls[p].tid] = AttemptedTask
        /\ tasks[calls[p].tid].company_id # calls[p].cid
        /\ task_attempts = <<StoredAttempt>>
        /\ user_rewards = <<IssuedReward>>

(***************************************************************************)
(* SpecFeature: featureTask by the owner on a stored draft or active task, *)
(* for the shortest, the default and the longest duration the route        *)
(* accepts, next to publishTask and the passing of time.                   *)
(***************************************************************************)
FeatureDurations == {1, 7, 30}

InitFeature == InitWith({OneTask(DraftTask), OneTask(ActiveTask)}, {<<>>}, {<<>>})

NextFeature ==
    \/ \E p \in Procs, taskId \in TaskIds, days \in FeatureDurations :
            FeatureTask_Start(p, taskId, "c1", days)
    \/ \E p \in Procs : FeatureTask_Update(p)
    \/ \E p \in Procs : FeatureTask_CacheDel(p)
    \/ \E p \in Procs : FeatureTask_Return(p)
    \/ \E p \in Procs : PublishTask(p, {"c1"})
    \/ Tick

SpecFeature == InitFeature /\ [][NextFeature]_vars

\* C21: featureTask on an owned task that is not active ends with
\* ForbiddenError and changes no table and no cache; on an active task its
\* update sets is_featured and featured_until = (time of the call) +
\* durationDays and nothing else, so the status stays active, and the call
\* returns cost = 99 * durationDays (693 for 7 days) with the updated row.
C21_FeatureContract ==
    [][\A p \in Procs :
          /\ (Starts(p, "featureTask") /\ TaskExists(calls'[p].tid)
                /\ tasks[calls'[p].tid].company_id = calls'[p].cid)
             => IF tasks[calls'[p].tid].status # "active"
                THEN /\ calls'[p].pc = "done" /\ calls'[p].err = ForbiddenError
                     /\ tasks' = tasks /\ redisStore' = redisStore
                     /\ memoryCache' = memoryCache
                ELSE /\ calls'[p].pc # "done"
                     /\ calls'[p].data.featuredUntil = now + calls'[p].data.durationDays
          /\ (calls[p].op = "featureTask" /\ calls[p].pc = "ft_update"
                /\ calls'[p].pc # "ft_update")
             => LET id == calls[p].tid IN
                /\ tasks'[id] = [tasks[id] EXCEPT !.is_featured = TRUE,
                                    !.featured_until = calls[p].data.featuredUntil]
                /\ tasks'[id].status = "active"
          /\ (calls[p].op = "featureTask" /\ calls[p].pc # "done"
                /\ calls'[p].pc = "done" /\ calls'[p].err = NULL)
             => /\ calls'[p].ret.cost = 99 * calls[p].data.durationDays
                /\ (calls[p].data.durationDays = 7 => calls'[p].ret.cost = 693)
                /\ calls'[p].ret.featured_until = calls[p].data.featuredUntil
                /\ calls'[p].ret.task.is_featured
                /\ calls'[p].ret.task.status = "active"]_vars

\* C21 witness: a 7-day featureTask called at a later time has returned cost
\* 693 and the task is active, featured until seven days after the call.
C21_Witness ==
    \E p \in Procs :
        /\ IsCall(p, "featureTask") /\ Succeeded(p)
        /\ calls[p].data.durationDays = 7
        /\ calls[p].ret.cost = 693
        /\ calls[p].ret.featured_until = 1 + TickDays + 7
        /\ tasks[calls[p].tid].status = "active"
        /\ tasks[calls[p].tid].is_featured
        /\ tasks[calls[p].tid].featured_until = 1 + TickDays + 7

(***************************************************************************)
(* SpecTitle: createTask by two companies with titles that differ from a   *)
(* stored title in case and surrounding blanks only, or not at all.        *)
(***************************************************************************)
TitleInputs ==
    {ValidTaskData, NoImageTaskData,
     [NoImageTaskData EXCEPT !.title = <<" ", "p", "i", "Z", " ">>],
     [NoImageTaskData EXCEPT !.title = <<"p", "i", "Z">>, !.reward_value = <<"0">>]}

InitTitle == InitWith({EmptyTasks, OneTask(DraftTask)}, {<<>>}, {<<>>})

NextTitle == \E p \in Procs : CreateTask(p, Companies, TitleInputs)

SpecTitle == InitTitle /\ [][NextTitle]_vars

\* the company has a task whose title equals the given one after trimming,
\* case ignored
HasTitle(companyId, title) ==
    \E id \in TaskIds :
        /\ TaskExists(id)
        /\ tasks[id].company_id = companyId
        /\ Lower(Trim(tasks[id].title)) = Lower(Trim(title))

\* the createTask call that starts in this step ends in it with ConflictError
\* and leaves the tasks and both caches as they are
ConflictWithoutEffect(p) ==
    /\ calls'[p].pc = "done" /\ calls'[p].err = ConflictError
    /\ tasks' = tasks /\ redisStore' = redisStore
    /\ memoryCache' = memoryCache /\ heap' = heap

\* C22 as stated: every createTask whose title, trimmed and case ignored, is
\* the title of a task of the same company fails with ConflictError without
\* inserting a row or writing a cache entry.
C22_AsStated ==
    [][\A p \in Procs :
          (Starts(p, "createTask") /\ HasTitle(calls'[p].cid, calls'[p].data.title))
          => ConflictWithoutEffect(p)]_vars

\* C22: createTask with data that validateTaskData accepts and a title that,
\* trimmed and case ignored, is the title of a task of the same company
\* fails with ConflictError, inserts no row and writes no cache entry.
C22_DuplicateTitleConflict ==
    [][\A p \in Procs :
          (/\ Starts(p, "createTask")
           /\ validateTaskData(calls'[p].data)
           /\ HasTitle(calls'[p].cid, calls'[p].data.title))
          => ConflictWithoutEffect(p)]_vars

\* C22 witness: a createTask whose title differs from the stored one in case
\* and blanks has failed with ConflictError; the company's task is the only
\* row.
C22_Witness ==
    \E p \in Procs :
        /\ IsCall(p, "createTask") /\ Failed(p, "ConflictError")
        /\ calls[p].data.title = <<" ", "p", "i", "Z", " ">>
        /\ \A id \in TaskIds :
              TaskExists(id) /\ tasks[id].company_id = calls[p].cid
              /\ tasks[id].title = <<"P", "i", "z">>

(***************************************************************************)
(* SpecValidate: createTask with bodies that differ from a valid one in    *)
(* one field, at and beyond each limit validateTaskData tests.             *)
(***************************************************************************)
\* a text of n characters between blanks
Padded(n, c) == <<" ">> \o Str(n, c) \o <<" ">>

ValidationInputs ==
    {ValidTaskData, NoImageTaskData}
    \cup {[NoImageTaskData EXCEPT !.title = t] :
             t \in {<<>>, Str(2, "t"), Padded(2, "t"), Padded(3, "t"), Str(100, "t"),
                    Padded(100, "t"), Str(101, "t"), Str(4, " ")}}
    \cup {[NoImageTaskData EXCEPT !.description = t] : t \in {Str(1000, "x"), Str(1001, "x")}}
    \cup {[NoImageTaskData EXCEPT !.task_type = "invalid-type"],
          [NoImageTaskData EXCEPT !.difficulty = "invalid"],
          [NoImageTaskData EXCEPT !.reward_type = "cash"]}
    \cup {[NoImageTaskData EXCEPT !.reward_value = t] :
             t \in {<<>>, <<"a", "b", "c">>, <<"-", "5">>, <<"0">>, <<"1">>,
                    <<"1", "0", "0", "0", "0">>, <<"1", "0", "0", "0", "1">>}}
    \cup {[NoImageTaskData EXCEPT !.reward_description = t] :
             t \in {<<>>, Str(9, "d"), Padded(9, "d"), Padded(10, "d"), Str(255, "d"),
                    Str(256, "d")}}

InitValidate == InitWith({EmptyTasks}, {<<>>}, {<<>>})

\* the first request has any of the bodies, the others the valid one
NextValidate ==
    \E p \in Procs :
        CreateTask(p, {"c1"}, IF p = 1 THEN ValidationInputs ELSE {NoImageTaskData})

SpecValidate == InitValidate /\ [][NextValidate]_vars

\* the data is what C23 asks for, in the claim's words
WithinLimits(d) ==
    /\ Len(Trim(d.title)) \in 3..100
    /\ Len(d.description) <= 1000
    /\ d.task_type \in {"image-puzzle", "spot-diff", "speed-challenge", "meme", "logic"}
    /\ d.difficulty \in {"easy", "medium", "hard", "expert"}
    /\ d.reward_type \in {"discount", "coupon", "points", "cashback"}
    /\ ~isNaN(parseFloat(d.reward_value))
    /\ parseFloat(d.reward_value).value > 0
    /\ parseFloat(d.reward_value).value <= 10000
    /\ Len(Trim(d.reward_description)) \in 10..255

GenerateInputs ==
    {[ValidTaskData EXCEPT !.difficulty = d] : d \in validDifficulties}
    \cup {NoImageTaskData,
          [ValidTaskData EXCEPT !.image_file = "invalid"],
          [ValidTaskData EXCEPT !.image_file = "oversize"]}

InitGenerate == InitWith({EmptyTasks, OneTask(DraftTask)}, {<<>>}, {<<>>})

NextGenerate ==
    \/ \E p \in Procs : CreateTask(p, {"c1"}, GenerateInputs)
    \/ \E p \in Procs : PublishTask(p, {"c1"})

SpecGenerate == InitGenerate /\ [][NextGenerate]_vars

\* C24: no createTask with data within the limits and a valid image ends
\* with ValidationError (it ends with a draft that has an image reference
\* and a puzzle_config of 9, 16 or 25 pieces by difficulty, which publishTask
\* then makes active).
C24_ValidImageAccepted ==
    \A p \in Procs :
        (/\ IsCall(p, "createTask")
         /\ calls[p].data.image_file = "valid"
         /\ WithinLimits(calls[p].data))
        => ~Failed(p, "ValidationError")

\* the configuration is whole: every field generateImagePuzzle sets is there
\* and the orders have piece_count entries
CompleteConfig(cfg) ==
    /\ {"image_url", "grid_size", "piece_count", "shuffled_order", "correct_solution"}
          \subseteq DOMAIN cfg
    /\ Len(cfg.correct_solution) = cfg.piece_count
    /\ Len(cfg.shuffled_order) = cfg.piece_count

\* C25: a createTask whose puzzle generation does not hand back a whole
\* configuration ends right there with an error and writes no task row; every
\* stored task has no puzzle_config or a whole one.
C25_FailedGenerationCreatesNothing ==
    [][/\ \A p \in Procs :
             (/\ calls[p].op = "createTask" /\ calls[p].pc = "ct_generate"
              /\ calls'[p].pc # "ct_generate"
              /\ ~(calls'[p].loc # NULL /\ CompleteConfig(calls'[p].loc.config)))
             => /\ calls'[p].pc = "done" /\ calls'[p].err # NULL
                /\ calls'[p].tid = 0
                /\ tasks' = tasks
       /\ \A id \in TaskIds :
             TaskExists(id)' =>
                \/ tasks'[id].puzzle_config = NULL
                \/ CompleteConfig(tasks'[id].puzzle_config)]_vars

\* C25 witness: a createTask with an image has failed with ValidationError
\* and the tasks table has no row.
C25_Witness ==
    \E p \in Procs :
        /\ IsCall(p, "createTask") /\ Failed(p, "ValidationError")
        /\ calls[p].data.image_file # NullStr
        /\ WithinLimits(calls[p].data)
        /\ \A id \in TaskIds : ~TaskExists(id)

(***************************************************************************)
(* SpecDelete: the owner's deleteTask, committed or rolled back, among     *)
(* recordAttempt and createReward calls for the same task, on a task       *)
(* without rows and on one with an attempt and a reward.                   *)
(***************************************************************************)
InitDelete ==
    \/ InitWith({OneTask(ActiveTask)}, {<<>>}, {<<>>})
    \/ InitWith({OneTask(AttemptedTask)}, {<<StoredAttempt>>}, {<<IssuedReward>>})

NextDelete ==
    \/ \E p \in Procs : DeleteTask(p, {"c1"})
    \/ \E p \in Procs : RecordAttempt(p, {"u2"}, {[is_successful |-> TRUE, time_taken_seconds |-> 45]})
    \/ \E p \in Procs : CreateReward(p, {"u2"})

SpecDelete == InitDelete /\ [][NextDelete]_vars

\* every attempt and every reward is of a stored task
NoOrphanRows ==
    /\ \A i \in 1..Len(task_attempts) : TaskExists(task_attempts[i].task_id)
    /\ \A i \in 1..Len(user_rewards) : TaskExists(user_rewards[i].task_id)

\* the step is the transaction of a deleteTask call of slot p
DeleteStep(p) ==
    /\ calls[p].op = "deleteTask"
    /\ calls[p].pc = "dt_transaction" /\ calls'[p].pc # "dt_transaction"

\* C26: the transaction of deleteTask either removes the task and every
\* attempt and reward of it in one step, or fails and leaves tasks, attempts
\* and rewards as they were; in every reachable state, recordAttempt and
\* createReward interleaved, every attempt and reward is of a stored task.
C26_DeleteIsAtomic ==
    /\ []NoOrphanRows
    /\ [][\A p \in Procs :
             DeleteStep(p) =>
                \/ /\ calls'[p].err = NULL
                   /\ tasks'[calls[p].tid] = NULL
                   /\ \A i \in 1..Len(task_attempts') :
                         task_attempts'[i].task_id # calls[p].tid
                   /\ \A i \in 1..Len(user_rewards') :
                         user_rewards'[i].task_id # calls[p].tid
                \/ /\ calls'[p].pc = "done" /\ calls'[p].err # NULL
                   /\ tasks' = tasks
                   /\ task_attempts' = task_attempts
                   /\ user_rewards' = user_rewards]_vars

\* C26 witness: deleteTask has returned after a recordAttempt call had
\* stored its attempt for the task; no task, attempt or reward is left.
C26_Witness ==
    \E p, q \in Procs :
        /\ IsCall(p, "deleteTask") /\ Succeeded(p)
        /\ IsCall(q, "recordAttempt") /\ calls[q].tid = calls[p].tid
        /\ calls[q].pc \in {"ra_update", "ra_cachedel", "ra_return", "done"}
        /\ calls[q].err = NULL
        /\ ~TaskExists(calls[p].tid)
        /\ task_attempts = <<>> /\ user_rewards = <<>>

(***************************************************************************)
(* Double-precision arithmetic (IEEE 754 binary64, round to nearest, ties  *)
(* to even), as far as validateSolution uses it: the quotient of two whole *)
(* numbers 0 < n <= d, its product with a small whole number, and          *)
(* Math.floor.  A positive double is a significand of 53 bits and an       *)
(* exponent exp.  The significand is written in base 2^LimbBits, most      *)
(* significant limb first: a leading limb 1 followed by Limbs limbs of     *)
(* LimbBits bits; the value of the double is the significand, read as a    *)
(* number in [1, 2), times 2^exp.                                          *)
(***************************************************************************)
LimbBits == 13
Limbs == 4
SignificandBits == 1 + Limbs * LimbBits
LimbBase == 2^LimbBits

\* the significand plus one unit in the last place
Increment(limbs) ==
    [i \in 1..Len(limbs) |->
        IF \A j \in (i + 1)..Len(limbs) : limbs[j] = LimbBase - 1
        THEN IF i = 1 THEN limbs[i] + 1 ELSE (limbs[i] + 1) % LimbBase
        ELSE limbs[i]]

\* a significand that rounding has carried to 2 is 1 with the next exponent
Normalised(limbs, exp) ==
    IF limbs[1] = 2
    THEN [limbs |-> <<1>> \o [i \in 1..Limbs |-> 0], exp |-> exp + 1]
    ELSE [limbs |-> limbs, exp |-> exp]

\* the remainder of n * LimbBase^i by d
RECURSIVE LimbRemainder(_, _, _)
LimbRemainder(n, d, i) ==
    IF i = 0 THEN n % d ELSE (LimbRemainder(n, d, i - 1) * LimbBase) % d

\* n / d for whole numbers 0 < n <= d < 2^LimbBits, rounded to a double
DoubleQuotient(n, d) ==
    LET k == CHOOSE k \in 0..LimbBits : n * 2^k >= d /\ (k > 0 => n * 2^(k - 1) < d)
        scaled == n * 2^k       \* scaled / d is in [1, 2)
        limbs == <<scaled \div d>>
                 \o [i \in 1..Limbs |->
                        (LimbRemainder(scaled, d, i - 1) * LimbBase) \div d]
        rest == LimbRemainder(scaled, d, Limbs)
        up == 2 * rest > d \/ (2 * rest = d /\ limbs[Len(limbs)] % 2 = 1)
    IN Normalised(IF up THEN Increment(limbs) ELSE limbs, 0 - k)

\* the carries of limbs times c, and the limbs of the product: the leading
\* limb holds all the bits above the others
TimesCarries(limbs, c) ==
    LET carry[i \in 1..(Len(limbs) + 1)] ==
            IF i = Len(limbs) + 1 THEN 0
            ELSE (c * limbs[i] + carry[i + 1]) \div LimbBase
    IN carry
TimesLimbs(limbs, c) ==
    LET carry == TimesCarries(limbs, c)
    IN [i \in 1..Len(limbs) |->
           IF i = 1 THEN c * limbs[1] + carry[2]
           ELSE (c * limbs[i] + carry[i + 1]) % LimbBase]

\* limbs with a leading limb below 2^(extra + 1), without its last extra bits
ShiftedRight(limbs, extra) ==
    [i \in 1..Len(limbs) |->
        IF i = 1 THEN limbs[1] \div 2^extra
        ELSE limbs[i] \div 2^extra
             + (limbs[i - 1] % 2^extra) * 2^(LimbBits - extra)]

\* x * c for a double x and a whole number 0 < c < 2^LimbBits, rounded
DoubleTimes(x, c) ==
    LET product == TimesLimbs(x.limbs, c)
        extra == CHOOSE e \in 0..LimbBits :
                     2^e <= product[1] /\ product[1] < 2^(e + 1)
        kept == ShiftedRight(product, extra)
        dropped == product[Len(product)] % 2^extra
        up == extra > 0
              /\ \/ 2 * dropped > 2^extra
                 \/ 2 * dropped = 2^extra /\ kept[Len(kept)] % 2 = 1
    IN Normalised(IF up THEN Increment(kept) ELSE kept, x.exp + extra)

\* Math.floor of a double below 2^LimbBits
DoubleFloor(x) ==
    IF x.exp < 0 THEN 0
    ELSE (x.limbs[1] * LimbBase + x.limbs[2]) \div 2^(LimbBits - x.exp)

(***************************************************************************)
(* validateSolution (puzzleGenerator.js, lines 143-196)                    *)
(***************************************************************************)
\* a value that is an array, and one that is not
Array(items) == [isArray |-> TRUE, items |-> items]
NotAnArray == [isArray |-> FALSE, items |-> <<>>]

DigitChars == <<"0", "1", "2", "3", "4", "5", "6", "7", "8", "9">>

\* the decimal text of a whole number, as JSON.stringify writes it
RECURSIVE NumberText(_)
NumberText(n) ==
    IF n < 0 THEN <<"-">> \o NumberText(-n)
    ELSE IF n < 10 THEN <<DigitChars[n + 1]>>
    ELSE NumberText(n \div 10) \o <<DigitChars[(n % 10) + 1]>>

RECURSIVE JoinNumbers(_)
JoinNumbers(items) ==
    IF items = <<>> THEN <<>>
    ELSE IF Len(items) = 1 THEN NumberText(items[1])
    ELSE NumberText(items[1]) \o <<",">> \o JoinNumbers(Tail(items))

\* JSON.stringify of an array of whole numbers: the text [n1,n2,...]
stringifyArray(items) == <<"[">> \o JoinNumbers(items) \o <<"]">>

maxTimeSeconds == 300
baseScore == 100

\* lines 167-171: timeBonus = Math.floor(Math.max(0, (300 - s) / 300) * 50)
\* for an elapsed time of timeTaken milliseconds that is a whole number of
\* seconds s (timeTaken / 1000 and 300 - s are then exact)
timeBonus(timeTaken) ==
    LET timeTakenSeconds == timeTaken \div 1000
        remaining == maxTimeSeconds - timeTakenSeconds
    IN IF remaining <= 0 THEN 0
       ELSE DoubleFloor(DoubleTimes(DoubleQuotient(remaining, maxTimeSeconds), 50))

\* validateSolution that compares the orderings as sets of indices
validateSolution_AnyPermutation(userSolution, correctSolution, timeTaken) ==
    IF ~userSolution.isArray \/ ~correctSolution.isArray
    THEN [threw |-> TRUE, error |-> ValidationError, value |-> NULL]
    ELSE IF Len(userSolution.items) # Len(correctSolution.items)
    THEN [threw |-> TRUE, error |-> ValidationError, value |-> NULL]
    ELSE IF {userSolution.items[i] : i \in 1..Len(userSolution.items)}
               # {correctSolution.items[i] : i \in 1..Len(correctSolution.items)}
    THEN [threw |-> FALSE, error |-> NULL,
          value |-> [is_correct |-> FALSE, score |-> 0, time_bonus |-> 0]]
    ELSE [threw |-> FALSE, error |-> NULL,
          value |-> [is_correct |-> TRUE,
                     score |-> baseScore + timeBonus(timeTaken),
                     time_bonus |-> timeBonus(timeTaken)]]

\* what validateSolution returns, or the error it throws
validateSolution(userSolution, correctSolution, timeTaken) ==
    IF ~userSolution.isArray \/ ~correctSolution.isArray
    THEN [threw |-> TRUE, error |-> ValidationError, value |-> NULL]
    ELSE IF Len(userSolution.items) # Len(correctSolution.items)
    THEN [threw |-> TRUE, error |-> ValidationError, value |-> NULL]
    ELSE IF stringifyArray(userSolution.items) # stringifyArray(correctSolution.items)
    THEN [threw |-> FALSE, error |-> NULL,
          value |-> [is_correct |-> FALSE, score |-> 0, time_bonus |-> 0]]
    ELSE [threw |-> FALSE, error |-> NULL,
          value |-> [is_correct |-> TRUE,
                     score |-> baseScore + timeBonus(timeTaken),
                     time_bonus |-> timeBonus(timeTaken)]]

\* a call of validateSolution: one step, it awaits nothing
ValidateSolution(p, userSolution, correctSolution, timeTaken) ==
    /\ CanStart(p)
    /\ LET c == Begin("validateSolution", 0, NullStr, NullStr,
                      [userSolution |-> userSolution,
                       correctSolution |-> correctSolution,
                       timeTaken |-> timeTaken])
           r == validateSolution(userSolution, correctSolution, timeTaken)
       IN calls' = [calls EXCEPT ![p] =
              IF r.threw THEN Throw(c, r.error) ELSE Return(c, r.value)]
    /\ UNCHANGED <<tasks, task_attempts, user_rewards, redisStore, memoryCache, heap, now>>

(***************************************************************************)
(* SpecSolution: calls of validateSolution against the stored solution     *)
(* 0, 1, ..., with every ordering of up to MaxSolutionLen indices (also    *)
(* repeated ones and one beyond the range) and with every elapsed time of  *)
(* a whole number of seconds up to MaxElapsedSeconds.                      *)
(***************************************************************************)
MaxSolutionLen == 3        \* pieces of the stored solution
MaxElapsedSeconds == 301   \* longest elapsed time submitted

StoredSolution == Array(Identity(MaxSolutionLen))

SubmittedSolutions ==
    {NotAnArray}
    \cup {Array(items) :
             items \in UNION {[1..n -> 0..MaxSolutionLen] : n \in 0..MaxSolutionLen}}

ElapsedTimes == {1000 * s : s \in 0..MaxElapsedSeconds}

InitSolution == InitWith({OneTask(ActiveTask)}, {<<>>}, {<<>>})

\* the first call has any ordering or any elapsed time, the others the
\* stored solution after 45 seconds
NextSolution ==
    \E p \in Procs :
        \/ /\ p = 1
           /\ \E userSolution \in SubmittedSolutions, timeTaken \in {0, 45000, 301000} :
                 ValidateSolution(p, userSolution, StoredSolution, timeTaken)
        \/ /\ p = 1
           /\ \E timeTaken \in ElapsedTimes :
                 ValidateSolution(p, StoredSolution, StoredSolution, timeTaken)
        \/ /\ p # 1
           /\ ValidateSolution(p, StoredSolution, StoredSolution, 45000)

SpecSolution == InitSolution /\ [][NextSolution]_vars

\* a finished call of validateSolution on two arrays of the same length
ComparedOrderings(p) ==
    /\ IsCall(p, "validateSolution") /\ Done(p)
    /\ calls[p].data.userSolution.isArray
    /\ Len(calls[p].data.userSolution.items) = Len(calls[p].data.correctSolution.items)

\* C27: for orderings of the same length validateSolution returns is_correct
\* = true with score >= 100 if the submitted ordering equals correct_solution
\* element for element, and is_correct = false with score 0 if it differs in
\* some position.
C27_ExactEquality ==
    \A p \in Procs :
        ComparedOrderings(p) =>
            /\ calls[p].err = NULL
            /\ IF \A i \in 1..Len(calls[p].data.correctSolution.items) :
                     calls[p].data.userSolution.items[i]
                         = calls[p].data.correctSolution.items[i]
               THEN calls[p].ret.is_correct /\ calls[p].ret.score >= 100
               ELSE ~calls[p].ret.is_correct /\ calls[p].ret.score = 0

\* C27 witness: an ordering with the right indices in another order has got
\* is_correct = false and score 0.
C27_Witness ==
    \E p \in Procs :
        /\ ComparedOrderings(p)
        /\ calls[p].data.userSolution.items = Reversed(MaxSolutionLen)
        /\ ~calls[p].ret.is_correct /\ calls[p].ret.score = 0

\* floor(50 * max(0, (300 - t / 1000) / 300)) for t milliseconds
ExactTimeBonus(t) ==
    IF t >= 300000 THEN 0 ELSE (50 * (300000 - t)) \div 300000

\* C28: a correct submission after t milliseconds gets score 100 +
\* floor(50 * max(0, (300 - t / 1000) / 300)).
C28_ScoreFormula ==
    \A p \in Procs :
        (ComparedOrderings(p) /\ calls[p].err = NULL /\ calls[p].ret.is_correct)
        => /\ calls[p].ret.time_bonus = ExactTimeBonus(calls[p].data.timeTaken)
           /\ calls[p].ret.score = 100 + calls[p].ret.time_bonus

\* the ordering has an index beyond those of correct_solution or one twice
OutsideIndexSet(user, correct) ==
    \/ \E i \in 1..Len(user) : \A j \in 1..Len(correct) : user[i] # correct[j]
    \/ \E i, j \in 1..Len(user) : i # j /\ user[i] = user[j]

\* C29: a submitted ordering of another length than correct_solution, or
\* with an index out of range or repeated, ends with ValidationError.
C29_IndexSetChecked ==
    \A p \in Procs :
        (/\ IsCall(p, "validateSolution") /\ Done(p)
         /\ calls[p].data.userSolution.isArray
         /\ \/ Len(calls[p].data.userSolution.items)
                  # Len(calls[p].data.correctSolution.items)
            \/ OutsideIndexSet(calls[p].data.userSolution.items,
                               calls[p].data.correctSolution.items))
        => Failed(p, "ValidationError")

(***************************************************************************)
(* generateImagePuzzle called by itself (puzzleGenerator.js, lines 28-134) *)
(***************************************************************************)
\* line 309: what uploadToS3 throws
UploadError ==
    [cls |-> "Error", isAppError |-> FALSE, statusCode |-> 0, code |-> NullStr]

\* lines 58-92: the pieces in the order the two loops push them
PuzzlePieces(gridSize) ==
    LET piecesPerSide == Sqrt(gridSize)
    IN [k \in 1..gridSize |->
           LET row == (k - 1) \div piecesPerSide
               col == (k - 1) % piecesPerSide
           IN [index |-> row * piecesPerSide + col, row |-> row, col |-> col]]

\* what generateImagePuzzle returns or throws, and the keys it has uploaded
generateImagePuzzle(imageBuffer, gridSize, s3ok, shuffled) ==
    IF gridSize \notin {9, 16, 25}
    THEN [threw |-> TRUE, error |-> ValidationError, value |-> NULL, uploaded |-> {}]
    ELSE IF ~isValidImage(imageBuffer)
    THEN [threw |-> TRUE, error |-> ValidationError, value |-> NULL, uploaded |-> {}]
    ELSE IF ~s3ok
    THEN [threw |-> TRUE, error |-> UploadError, value |-> NULL, uploaded |-> {}]
    ELSE LET pieces == PuzzlePieces(gridSize)
         IN [threw |-> FALSE, error |-> NULL,
             value |-> [image_url |-> ImageUrl,
                        grid_size |-> Sqrt(gridSize),
                        piece_count |-> gridSize,
                        pieces |-> [k \in 1..Len(pieces) |-> pieces[k].index],
                        shuffled_order |-> shuffled,
                        correct_solution |-> [k \in 1..Len(pieces) |-> pieces[k].index]],
             uploaded |-> {ImageUrl}]

GenerateImagePuzzle(p, imageBuffer, gridSize, s3ok, shuffled) ==
    /\ CanStart(p)
    /\ shuffled \in Shuffles(gridSize)
    /\ LET c == Begin("generateImagePuzzle", 0, NullStr, NullStr,
                      [imageBuffer |-> imageBuffer, gridSize |-> gridSize,
                       storageUp |-> s3ok])
           r == generateImagePuzzle(imageBuffer, gridSize, s3ok, shuffled)
           done == [c EXCEPT !.loc = [uploaded |-> r.uploaded]]
       IN calls' = [calls EXCEPT ![p] =
              IF r.threw THEN Throw(done, r.error) ELSE Return(done, r.value)]
    /\ UNCHANGED <<tasks, task_attempts, user_rewards, redisStore, memoryCache, heap, now>>

(***************************************************************************)
(* SpecPuzzle: calls of generateImagePuzzle with grid sizes in and out of  *)
(* {9, 16, 25}, with images of a supported format, of another format and   *)
(* above 5 MB, and with the storage up or down.                            *)
(***************************************************************************)
GridSizes == {4, 9, 10, 16, 25, 36}
ImageBuffers == {"valid", "invalid", "oversize"}

InitPuzzle == InitWith({EmptyTasks}, {<<>>}, {<<>>})

NextPuzzle ==
    \E p \in Procs, imageBuffer \in ImageBuffers, gridSize \in GridSizes,
       s3ok \in BOOLEAN :
        \E shuffled \in Shuffles(gridSize) :
            GenerateImagePuzzle(p, imageBuffer, gridSize, s3ok, shuffled)

SpecPuzzle == InitPuzzle /\ [][NextPuzzle]_vars

\* C30: generation for a grid size of 9, 16 or 25 (given an image of a
\* supported format within the size limit and the storage up) produces
\* grid_size pieces whose indices in row-major order are 0 .. grid_size - 1,
\* each once; for any other grid size it ends with ValidationError and has
\* uploaded nothing.
C30_RowMajorPieces ==
    \A p \in Procs :
        (IsCall(p, "generateImagePuzzle") /\ Done(p)) =>
            IF calls[p].data.gridSize \in {9, 16, 25}
            THEN (calls[p].data.imageBuffer = "valid" /\ calls[p].data.storageUp)
                 => /\ calls[p].err = NULL
                    /\ Len(calls[p].ret.pieces) = calls[p].data.gridSize
                    /\ \A row, col \in 0..(Sqrt(calls[p].data.gridSize) - 1) :
                          calls[p].ret.pieces[row * Sqrt(calls[p].data.gridSize) + col + 1]
                              = row * Sqrt(calls[p].data.gridSize) + col
            ELSE Failed(p, "ValidationError") /\ calls[p].loc.uploaded = {}

\* for any other grid size the call ends with ValidationError and has
\* uploaded nothing
C30_OtherGridSizesRejected ==
    \A p \in Procs :
        (IsCall(p, "generateImagePuzzle") /\ Done(p)
         /\ calls[p].data.gridSize \notin {9, 16, 25})
        => Failed(p, "ValidationError") /\ calls[p].loc.uploaded = {}

(***************************************************************************)
(* SpecAttemptFault: recordAttempt where the statement after the INSERT    *)
(* can fail.  The INSERT (lines 533-551) and the UPDATE (lines 553-561)    *)
(* are two calls of query, each its own transaction (part_003, lines       *)
(* 91-115); recordAttempt does not use withTransaction.                    *)
(***************************************************************************)
\* lines 553-561 when the query rejects: the error leaves recordAttempt
RecordAttempt_UpdateFails(p) ==
    /\ calls[p].pc = "ra_update"
    /\ calls' = [calls EXCEPT ![p] = Throw(@, DatabaseError(CONNECTION_FAILURE))]
    /\ UNCHANGED <<tasks, task_attempts, user_rewards, redisStore, memoryCache, heap, now>>

NextAttemptFault ==
    \/ \E p \in Procs : RecordAttempt(p, Users, AttemptInputs)
    \/ \E p \in Procs : RecordAttempt_UpdateFails(p)

SpecAttemptFault == InitAttempt /\ [][NextAttemptFault]_vars

\* C31: when recordAttempt fails after its INSERT and before its UPDATE of
\* the counters, the attempt row does not persist.
C31_InsertAndCountsOneUnit ==
    \A p \in Procs :
        (/\ IsCall(p, "recordAttempt") /\ Done(p)
         /\ calls[p].err # NULL /\ calls[p].loc # NULL)
        => AttemptsOfUser(calls[p].tid, calls[p].uid) = {}

\* C32: a createReward whose generated reward_code is already stored still
\* succeeds, with a code distinct from every stored code; no call that has
\* reached its INSERT fails, and no two rewards share a code.
C32_CollisionRetried ==
    /\ \A p \in Procs :
          (IsCall(p, "createReward") /\ Done(p) /\ calls[p].loc # NULL)
          => /\ calls[p].err = NULL
             /\ \A i \in 1..Len(user_rewards) :
                   user_rewards[i].reward_code = calls[p].ret.reward_code
                   => user_rewards[i].id = calls[p].ret.id
    /\ \A i, j \in 1..Len(user_rewards) :
          user_rewards[i].reward_code = user_rewards[j].reward_code => i = j

(***************************************************************************)
(* SpecInvalidate: the operations that write a task and clear its cache    *)
(* entry, among reads of the task, from a stored draft or from the active  *)
(* task and the attempt the seeder stores (part_002, lines 592-724: a task *)
(* without an image or a puzzle, one successful attempt).  The Redis       *)
(* command of cacheService.del can be rejected.                            *)
(***************************************************************************)
SeededTask ==
    [DraftTaskNoImage EXCEPT !.status = "active",
                             !.attempt_count = 1, !.conversion_count = 1]

\* redis.js lines 160-168 when redisClient.del rejects: the catch logs the
\* error and returns false, deleteMemory is not reached; the operation goes
\* on to return its value
CacheDel_Fails(p) ==
    /\ calls[p].pc \in {"ut_cachedel", "pt_cachedel", "ft_cachedel",
                        "dt_cachedel", "ra_cachedel"}
    /\ calls' = [calls EXCEPT ![p] = Return(@, calls[p].loc)]
    /\ UNCHANGED <<tasks, task_attempts, user_rewards, redisStore, memoryCache, heap, now>>

InitInvalidate ==
    \/ InitWith({OneTask(DraftTask)}, {<<>>}, {<<>>})
    \/ InitWith({OneTask(SeededTask)}, {<<StoredAttempt>>}, {<<>>})

NextInvalidate ==
    \/ \E p \in Procs : GetTask(p, {"u1", NullStr})
    \/ \E p \in Procs : UpdateTask(p, {"c1"}, {[reward_value |-> 50]})
    \/ \E p \in Procs : PublishTask(p, {"c1"})
    \/ \E p \in Procs : FeatureTask(p, {"c1"})
    \/ \E p \in Procs : DeleteTask(p, {"c1"})
    \/ \E p \in Procs : RecordAttempt(p, {"u2"}, AttemptInputs)
    \/ \E p \in Procs : CacheDel_Fails(p)
    \/ CacheExpiry

SpecInvalidate == InitInvalidate /\ [][NextInvalidate]_vars

MutatingOperations ==
    {"updateTask", "publishTask", "featureTask", "deleteTask", "recordAttempt"}

\* the step in which the request of slot p returns a value
Returns(p) ==
    calls[p].pc \notin {"idle", "done"} /\ calls'[p].pc = "done" /\ calls'[p].err = NULL

\* after the step no other request on the task of slot p is under way
NoOtherUnderWay(p) ==
    \A q \in Procs \ {p} :
        calls'[q].tid = calls'[p].tid => calls'[q].pc \in {"idle", "done"}

\* C33: when updateTask, publishTask, featureTask, deleteTask or
\* recordAttempt returns and no other operation on the task is under way,
\* neither the memory cache nor Redis holds an entry for the task.
C33_CachesCleared ==
    [][\A p \in Procs :
          (calls[p].op \in MutatingOperations /\ Returns(p) /\ NoOtherUnderWay(p))
          => /\ redisStore'[calls[p].tid] = NULL
             /\ memoryCache'[calls[p].tid] = 0]_vars

(***************************************************************************)
(* SpecStale: reads and writes of one task where a request that has ended  *)
(* leaves its slot to the next request, so that a read can start after a   *)
(* write that ran beside another read.  The object a request has put into  *)
(* the memory cache stays where it is when the slot is taken again: reads  *)
(* served from the memory cache use it, and a read that misses the memory  *)
(* cache builds its own object only when no entry refers to the slot's.    *)
(***************************************************************************)
Recycle(p) ==
    /\ calls[p].pc = "done"
    /\ \A k \in TaskIds : memoryCache[k] = p => k = calls[p].tid
    /\ calls' = [calls EXCEPT ![p] = Idle]
    /\ UNCHANGED <<tasks, task_attempts, user_rewards, redisStore, memoryCache, heap, now>>

InitStale ==
    \/ InitWith({OneTask(DraftTaskNoImage)}, {<<>>}, {<<>>})
    \/ InitWith({OneTask(SeededTask)}, {<<StoredAttempt>>}, {<<>>})

NextStale ==
    \/ \E p \in Procs : GetTask(p, {"u1", NullStr})
    \/ \E p \in Procs : UpdateTask(p, {"c1"}, {[reward_value |-> 50]})
    \/ \E p \in Procs : DeleteTask(p, {"c1"})
    \/ \E p \in Procs : RecordAttempt(p, {"u2"}, {[is_successful |-> TRUE, time_taken_seconds |-> 45]})
    \/ \E p \in Procs : Recycle(p)

SpecStale == InitStale /\ [][NextStale]_vars

\* a write of task id has returned and nothing but slot p is under way
StartsAfterWrite(p, id) ==
    /\ \A q \in Procs \ {p} : calls[q].pc \in {"idle", "done"}
    /\ \E q \in Procs \ {p} :
          /\ calls[q].op \in MutatingOperations
          /\ calls[q].pc = "done" /\ calls[q].err = NULL
          /\ calls[q].tid = id

\* the task data a read returns are those of the stored row
Reflects(ret, id) ==
    /\ ret.row.status = tasks[id].status
    /\ ret.row.reward_value = tasks[id].reward_value
    /\ ret.row.is_featured = tasks[id].is_featured
    /\ ret.total_attempts = Cardinality(AttemptsOf(id))

\* C34: a getTask that starts after a write of the task has completed
\* returns the task as the write left it, or fails with NotFoundError after
\* a delete, also when another getTask was reading the task during the
\* write.  (Stated for the reads that end in the step they start in.)
C34_ReadsSeeCompletedWrites ==
    [][\A p \in Procs :
          (/\ Starts(p, "getTask") /\ calls'[p].pc = "done"
           /\ StartsAfterWrite(p, calls'[p].tid))
          => IF TaskExists(calls'[p].tid)
             THEN calls'[p].err = NULL => Reflects(calls'[p].ret, calls'[p].tid)
             ELSE calls'[p].err = NotFoundError]_vars

(***************************************************************************)
(* SpecViewer: getTask by the player with the stored attempt, by another   *)
(* player and by an anonymous caller, one after or beside another, on the  *)
(* seeded task or on a stored draft with a puzzle.                         *)
(***************************************************************************)
InitViewer ==
    \/ InitWith({OneTask(SeededTask)}, {<<StoredAttempt>>}, {<<>>})
    \/ InitWith({OneTask(DraftTask)}, {<<>>}, {<<>>})

NextViewer ==
    \/ \E p \in Procs : GetTask(p, {"u1", "u2", NullStr})
    \/ CacheExpiry

SpecViewer == InitViewer /\ [][NextViewer]_vars

\* getTask (lines 111-158) when cacheService.get always misses and
\* cacheService.set does nothing: the error it throws or the task it returns
getTaskUncached(taskId, userId, form) ==
    IF ~TaskExists(taskId) THEN [err |-> NotFoundError, ret |-> NULL]
    ELSE LET read == TaskObject(taskId, form)
             obj == IF userId # NullStr
                    THEN [read EXCEPT !.user_attempt = FirstAttempt(taskId, userId)]
                    ELSE read
         IN IF ParseThrows(obj) THEN [err |-> SyntaxError, ret |-> NULL]
            ELSE [err |-> NULL, ret |-> Redact(obj)]

\* C35: a call has the same outcome with the cache as with a cache whose
\* get always misses and whose set and del do nothing.  (Stated for a
\* getTask that runs alone and ends in the step it starts in.)
C35_SameOutcomeWithoutCache ==
    [][\A p \in Procs :
          (/\ Starts(p, "getTask") /\ calls'[p].pc = "done"
           /\ \A q \in Procs \ {p} : calls[q].pc \in {"idle", "done"})
          => \E form \in JsonForms :
                /\ calls'[p].err = getTaskUncached(calls'[p].tid, calls'[p].uid, form).err
                /\ calls'[p].ret = getTaskUncached(calls'[p].tid, calls'[p].uid, form).ret]_vars

\* C38: the user_attempt of a getTask result is the caller's own attempt
\* for the task; it is absent or null when the caller is anonymous or has
\* no attempt.
C38_OwnAttemptOnly ==
    \A p \in Procs :
        (IsCall(p, "getTask") /\ Succeeded(p))
        => IF calls[p].uid = NullStr \/ AttemptsOfUser(calls[p].tid, calls[p].uid) = {}
           THEN calls[p].ret.user_attempt \in {Absent, NULL}
           ELSE calls[p].ret.user_attempt = FirstAttempt(calls[p].tid, calls[p].uid)

(***************************************************************************)
(* SpecUniqueTitle: createTask and updateTask of one company on a table    *)
(* that holds one row more than the requests name by id, empty or with two *)
(* stored drafts of different titles.                                      *)
(***************************************************************************)
StoredIds == 1..(MaxTasks + 1)

LogoDraft == [DraftTaskNoImage EXCEPT !.title = <<"L", "o", "g", "o">>]

InitUniqueTitle ==
    /\ tasks \in {[id \in StoredIds |-> NULL],
                  [id \in StoredIds |-> IF id = 1 THEN DraftTaskNoImage ELSE LogoDraft]}
    /\ task_attempts = <<>>
    /\ user_rewards = <<>>
    /\ redisStore = [id \in StoredIds |-> NULL]
    /\ memoryCache = [id \in StoredIds |-> 0]
    /\ heap = [p \in Procs |-> NULL]
    /\ calls = [p \in Procs |-> Idle]
    /\ now = 1

NextUniqueTitle ==
    \/ \E p \in Procs : CreateTask(p, {"c1"}, {ValidTaskData, NoImageTaskData})
    \/ \E p \in Procs : UpdateTask(p, {"c1"}, {[title |-> <<"l", "O", "G", "O">>],
                                               [reward_value |-> 50]})

SpecUniqueTitle == InitUniqueTitle /\ [][NextUniqueTitle]_vars

\* C39: no two tasks of one company have titles that are equal without
\* regard to case.
C39_TitlesUniquePerCompany ==
    \A i, j \in DOMAIN tasks :
        (/\ tasks[i] # NULL /\ tasks[j] # NULL
         /\ tasks[i].company_id = tasks[j].company_id
         /\ Lower(tasks[i].title) = Lower(tasks[j].title)) => i = j

(***************************************************************************)
(* The extraction of the pieces in generateImagePuzzle                     *)
(* (src/src/services/tasks/puzzleGenerator.js, lines 42-92)                *)
(***************************************************************************)
CanvasSize == 400

\* the region handed to extract() for the piece at (row, col): pieceSize is
\* the double 400 / piecesPerSide, each offset the floor of a double product
ExtractRegion(piecesPerSide, row, col) ==
    LET pieceSize == DoubleQuotient(CanvasSize, piecesPerSide)
        Offset(k) == IF k = 0 THEN 0 ELSE DoubleFloor(DoubleTimes(pieceSize, k))
    IN [left |-> Offset(col), top |-> Offset(row),
        width |-> DoubleFloor(pieceSize), height |-> DoubleFloor(pieceSize)]

\* the loops over row and col: one piece is extracted per step
ExtractPieces_Start(p, gridSize) ==
    /\ CanStart(p)
    /\ calls' = [calls EXCEPT ![p] =
           [Goto(Begin("extractPieces", 0, NullStr, NullStr, [gridSize |-> gridSize]),
                 "ep_extract")
            EXCEPT !.loc = [row |-> 0, col |-> 0, regions |-> <<>>]]]
    /\ UNCHANGED <<tasks, task_attempts, user_rewards, redisStore, memoryCache, heap, now>>

ExtractPieces_Extract(p) ==
    /\ calls[p].pc = "ep_extract"
    /\ LET c == calls[p]
           piecesPerSide == Sqrt(c.data.gridSize)
           l == c.loc
       IN calls' = [calls EXCEPT ![p] =
              IF l.row >= piecesPerSide THEN Return(c, l.regions)
              ELSE [c EXCEPT !.loc =
                       [row |-> IF l.col + 1 < piecesPerSide THEN l.row ELSE l.row + 1,
                        col |-> IF l.col + 1 < piecesPerSide THEN l.col + 1 ELSE 0,
                        regions |-> Append(l.regions,
                                           ExtractRegion(piecesPerSide, l.row, l.col))]]]
    /\ UNCHANGED <<tasks, task_attempts, user_rewards, redisStore, memoryCache, heap, now>>

(***************************************************************************)
(* SpecPieces: the extraction loops for the three accepted grid sizes.     *)
(***************************************************************************)
InitPieces == InitWith({EmptyTasks}, {<<>>}, {<<>>})

NextPieces ==
    \E p \in Procs :
        \/ \E gridSize \in IF p = 1 THEN {9, 16, 25} ELSE {9} :
               ExtractPieces_Start(p, gridSize)
        \/ ExtractPieces_Extract(p)

SpecPieces == InitPieces /\ [][NextPieces]_vars

InRegion(r, x, y) ==
    /\ r.left <= x /\ x < r.left + r.width
    /\ r.top <= y /\ y < r.top + r.height

\* C36: the extracted regions tile the 400x400 canvas: every pixel belongs
\* to exactly one piece.
C36_PiecesTileCanvas ==
    \A p \in Procs :
        (IsCall(p, "extractPieces") /\ Succeeded(p)) =>
            \A x, y \in 0..(CanvasSize - 1) :
                Cardinality({k \in 1..Len(calls[p].ret) :
                                InRegion(calls[p].ret[k], x, y)}) = 1

\* C36 (no overlap): no pixel belongs to two extracted pieces, and every
\* region lies inside the canvas.
C36_NoOverlap ==
    \A p \in Procs :
        (IsCall(p, "extractPieces") /\ Succeeded(p)) =>
            \A j, k \in 1..Len(calls[p].ret) :
                LET a == calls[p].ret[j]
                    b == calls[p].ret[k]
                IN /\ a.left + a.width <= CanvasSize
                   /\ a.top + a.height <= CanvasSize
                   /\ j # k => \/ a.left + a.width <= b.left
                               \/ b.left + b.width <= a.left
                               \/ a.top + a.height <= b.top
                               \/ b.top + b.height <= a.top

(***************************************************************************)
(* shuffleArray (src/src/services/tasks/puzzleGenerator.js, lines 318-325) *)
(***************************************************************************)
\* a swap that loses the element at position i (0-based)
Swapped_Overwrite(a, i, j) == [a EXCEPT ![i + 1] = a[j + 1]]

\* [shuffled[i], shuffled[j]] = [shuffled[j], shuffled[i]], positions 0-based
Swapped(a, i, j) == [a EXCEPT ![i + 1] = a[j + 1], ![j + 1] = a[i + 1]]

\* const shuffled = [...array]: the caller's array stays in heap[p], the copy
\* is a local of the call; i starts at the last position
ShuffleArray_Start(p, array) ==
    /\ CanStart(p)
    /\ heap' = [heap EXCEPT ![p] = [items |-> array]]
    /\ calls' = [calls EXCEPT ![p] =
           [Goto(Begin("shuffleArray", 0, NullStr, NullStr, [array |-> array]), "sa_loop")
            EXCEPT !.loc = [shuffled |-> array, i |-> Len(array) - 1]]]
    /\ UNCHANGED <<tasks, task_attempts, user_rewards, redisStore, memoryCache, now>>

\* one turn of the loop, with j = Math.floor(Math.random() * (i + 1)) any of
\* 0..i, or the return when i has reached 0
ShuffleArray_Loop(p) ==
    /\ calls[p].pc = "sa_loop"
    /\ LET c == calls[p]
           l == c.loc
       IN IF l.i > 0
          THEN \E j \in 0..l.i :
                  calls' = [calls EXCEPT ![p] =
                      [c EXCEPT !.loc = [shuffled |-> Swapped(l.shuffled, l.i, j),
                                         i |-> l.i - 1]]]
          ELSE calls' = [calls EXCEPT ![p] = Return(c, l.shuffled)]
    /\ UNCHANGED <<tasks, task_attempts, user_rewards, redisStore, memoryCache, heap, now>>

(***************************************************************************)
(* SpecShuffle: shuffleArray on the index arrays [0, ..., n - 1] of every  *)
(* length up to MaxArrayLen and on an array with a repeated element.  The  *)
(* loop is synchronous code: once begun it runs to its end.                *)
(***************************************************************************)
MaxArrayLen == 3

ShuffleInputs == {Identity(n) : n \in 0..MaxArrayLen} \cup {<<7, 7, 8>>}

InitShuffle == InitWith({EmptyTasks}, {<<>>}, {<<>>})

NextShuffle ==
    \E p \in Procs :
        \/ \E array \in IF p = 1 THEN ShuffleInputs ELSE {Identity(2)} :
               ShuffleArray_Start(p, array)
        \/ ShuffleArray_Loop(p)

SpecShuffle ==
    /\ InitShuffle
    /\ [][NextShuffle]_vars
    /\ \A p \in Procs : WF_vars(ShuffleArray_Loop(p))

\* a holds the elements of b, each position of b taken once
IsPermutation(a, b) ==
    /\ Len(a) = Len(b)
    /\ \E f \in [1..Len(b) -> 1..Len(b)] :
          /\ \A m, n \in 1..Len(b) : f[m] = f[n] => m = n
          /\ \A k \in 1..Len(b) : a[k] = b[f[k]]

\* C37: whatever the random choices, shuffleArray terminates, never throws,
\* returns a permutation of its input and leaves the input array as it was.
C37_ShufflePermutesCopy ==
    /\ [](\A p \in Procs :
            IsCall(p, "shuffleArray") =>
                /\ heap[p].items = calls[p].data.array
                /\ Done(p) => /\ calls[p].err = NULL
                              /\ IsPermutation(calls[p].ret, calls[p].data.array))
    /\ \A p \in Procs : (calls[p].pc = "sa_loop") ~> Done(p)

\* a shuffle of [0, 1, 2] has returned the array in its original order, and
\* another call one in a different order
C37_Witness ==
    /\ IsCall(1, "shuffleArray") /\ Succeeded(1)
    /\ calls[1].data.array = Identity(3) /\ calls[1].ret = Identity(3)
    /\ IsCall(2, "shuffleArray") /\ Succeeded(2)
    /\ calls[2].ret = Reversed(2)

(***************************************************************************)
(* The featured-task payment flow (src/src/services/payments/service.js):  *)
(* createFeaturedTaskOrder (lines 34-118), verifyPayment (lines 149-232)   *)
(* and processFeaturedTaskPayment (lines 239-263).  The payments row of an *)
(* order is kept in loc.payment of the slot that created the order, and    *)
(* verifyPayment of that order runs in the same slot: the client verifies  *)
(* the order it was handed.  metadata is a JSONB column read with          *)
(* JSON.parse, like puzzle_config.                                         *)
(***************************************************************************)
\* src/unnamed/part_007, lines 365-369
SecurityError == AppError("SecurityError", 403, "SECURITY_ERROR")

\* line 115: throw new Error('Failed to create payment order')
OrderError == [cls |-> "Error", isAppError |-> FALSE, statusCode |-> 0, code |-> NullStr]

\* lines 38-49: the validation of durationDays and the SELECT of the owned task
CreateFeaturedTaskOrder_Start(p, companyId, taskId, durationDays) ==
    /\ CanStart(p)
    /\ LET c == Begin("createFeaturedTaskOrder", taskId, NullStr, companyId,
                      [durationDays |-> durationDays])
       IN calls' = [calls EXCEPT ![p] =
              IF durationDays < 1 \/ durationDays > 30 THEN Throw(c, ValidationError)
              ELSE IF OwnedTask(taskId, companyId) = NULL THEN Throw(c, NotFoundError)
              ELSE Goto(c, "fo_order")]
    /\ UNCHANGED <<tasks, task_attempts, user_rewards, redisStore, memoryCache, heap, now>>

\* lines 54-116: razorpay.orders.create and the INSERT INTO payments with
\* status 'initiated' and the notes as metadata; any failure is rethrown as
\* a plain Error
CreateFeaturedTaskOrder_Order(p, ok) ==
    /\ calls[p].pc = "fo_order"
    /\ LET c == calls[p]
           amount == FEATURED_TASK_COST_PER_DAY * c.data.durationDays
           payment == [company_id |-> c.cid, payment_type |-> "featured-task",
                       amount |-> amount, status |-> "initiated",
                       metadata |-> [task_id |-> c.tid,
                                     duration_days |-> c.data.durationDays]]
       IN calls' = [calls EXCEPT ![p] =
              IF ~ok THEN Throw(c, OrderError)
              ELSE Return([c EXCEPT !.loc = [payment |-> payment]],
                          [amount |-> amount, duration_days |-> c.data.durationDays])]
    /\ UNCHANGED <<tasks, task_attempts, user_rewards, redisStore, memoryCache, heap, now>>

\* lines 149-171: the signature test, the SELECT of the payments row and the
\* test for a payment already completed
VerifyPayment_Start(p, signatureOk) ==
    /\ \/ IsCall(p, "createFeaturedTaskOrder") /\ Succeeded(p)
       \/ IsCall(p, "verifyPayment") /\ Done(p)
    /\ LET payment == calls[p].loc.payment
           c == [Begin("verifyPayment", payment.metadata.task_id, NullStr,
                       payment.company_id, NULL)
                 EXCEPT !.loc = [payment |-> payment]]
       IN calls' = [calls EXCEPT ![p] =
              IF ~signatureOk THEN Throw(c, SecurityError)
              ELSE IF payment.status = "completed" THEN Throw(c, ConflictError)
              ELSE Goto(c, "vp_fetch")]
    /\ UNCHANGED <<tasks, task_attempts, user_rewards, redisStore, memoryCache, heap, now>>

\* lines 174-187 and 221-231: razorpay.payments.fetch; a payment not captured
\* throws into the catch, which marks the row failed; otherwise the row is
\* marked completed
VerifyPayment_Fetch(p, captured) ==
    /\ calls[p].pc = "vp_fetch"
    /\ LET c == calls[p]
       IN calls' = [calls EXCEPT ![p] =
              IF ~captured
              THEN Throw([c EXCEPT !.loc.payment.status = "failed"], ValidationError)
              ELSE Goto([c EXCEPT !.loc.payment.status = "completed"], "vp_process")]
    /\ UNCHANGED <<tasks, task_attempts, user_rewards, redisStore, memoryCache, heap, now>>

\* lines 239-252: JSON.parse(payment.metadata), which throws on a parsed
\* object, then UPDATE tasks SET is_featured = true, featured_until = $1
\* WHERE id = $2
ProcessFeaturedTaskPayment_Update(p, form) ==
    /\ calls[p].pc = "vp_process"
    /\ LET c == calls[p]
           metadata == c.loc.payment.metadata
           featuredUntil == now + metadata.duration_days
       IN IF form = "object"
          THEN /\ calls' = [calls EXCEPT ![p] =
                     Throw([c EXCEPT !.loc.payment.status = "failed"], SyntaxError)]
               /\ tasks' = tasks
          ELSE /\ calls' = [calls EXCEPT ![p] = Goto(c, "vp_cachedel")]
               /\ tasks' = IF TaskExists(metadata.task_id)
                           THEN [tasks EXCEPT ![metadata.task_id] =
                                    [@ EXCEPT !.is_featured = TRUE,
                                              !.featured_until = featuredUntil]]
                           ELSE tasks
    /\ UNCHANGED <<task_attempts, user_rewards, redisStore, memoryCache, heap, now>>

\* line 255
ProcessFeaturedTaskPayment_CacheDel(p) == CacheDel_Redis(p, "vp_cachedel", "vp_return")

\* lines 255, 195-219: deleteMemory, recordTransaction and the result
VerifyPayment_Return(p) ==
    /\ calls[p].pc = "vp_return"
    /\ memoryCache' = [memoryCache EXCEPT ![calls[p].tid] = 0]
    /\ calls' = [calls EXCEPT ![p] =
           Return(@, [success |-> TRUE, amount |-> calls[p].loc.payment.amount,
                      status |-> "completed"])]
    /\ UNCHANGED <<tasks, task_attempts, user_rewards, redisStore, heap, now>>

(***************************************************************************)
(* SpecFeaturePaid: a company with one task, a draft or an active one,     *)
(* publishes it, features it, or orders and pays for its featuring.        *)
(***************************************************************************)
OrderDurations == {7, 31}

InitFeaturePaid == InitWith({OneTask(DraftTask), OneTask(ActiveTask)}, {<<>>}, {<<>>})

NextFeaturePaid ==
    \E p \in Procs :
        \/ PublishTask(p, {"c1"})
        \/ FeatureTask(p, {"c1"})
        \/ \E taskId \in TaskIds, days \in OrderDurations :
               CreateFeaturedTaskOrder_Start(p, "c1", taskId, days)
        \/ \E ok \in BOOLEAN : CreateFeaturedTaskOrder_Order(p, ok)
        \/ \E signatureOk \in BOOLEAN : VerifyPayment_Start(p, signatureOk)
        \/ \E captured \in BOOLEAN : VerifyPayment_Fetch(p, captured)
        \/ \E form \in JsonForms : ProcessFeaturedTaskPayment_Update(p, form)
        \/ ProcessFeaturedTaskPayment_CacheDel(p)
        \/ VerifyPayment_Return(p)

SpecFeaturePaid == InitFeaturePaid /\ [][NextFeaturePaid]_vars

=============================================================================
